---- MODULE Spec2Model ----
(***************************************************************************)
(* Storage core of crustydb: the slotted Page (heapstore/src/page.rs), the *)
(* HeapFile (heapstore/src/heapfile.rs), the heap-store StorageManager     *)
(* (heapstore/src/storage_manager.rs) and the in-memory StorageManager     *)
(* (memstore/src/storage_manager.rs).                                      *)
(*                                                                         *)
(* Bytes are integers 0..255, a byte vector is a sequence.  An Option is a *)
(* sequence of length 0 (None) or 1 (Some).  Rust arithmetic on u16 keeps  *)
(* its width: with overflow checks (debug profile) an overflow panics,     *)
(* without them (release profile) it wraps modulo 2^16.  The profile is    *)
(* the variable overflow_checks, chosen once in Init.                      *)
(***************************************************************************)
EXTENDS Integers, Sequences, FiniteSets, TLC

VARIABLES
    overflow_checks,  \* TRUE: arithmetic overflow panics; FALSE: it wraps
    status,           \* "ok", or "panic" once a call has aborted
    page,             \* the Page under test
    adds,             \* add_value calls made on it so far
    live,             \* slot id -> bytes handed to the add_value that returned it
    last,             \* the last call: its name, argument, result, the page before
    iter,             \* Option<PageIter>
    iter_done,        \* the iterator has returned None
    yielded,          \* what the iterator has returned so far
    heapfiles,        \* StorageManager.hash_map: container id -> bytes of its file
    written,          \* container id -> page id -> bytes of the last write of that page
    containers,       \* memstore: container id -> (ValueId -> bytes)
    last_insert,      \* memstore: container id -> ValueId of the last insert
    stored,           \* memstore: ValueId -> bytes handed to the insert_value that returned it
    inserts,          \* memstore: insert_value calls made so far
    disk,             \* memstore: None, or Some(container id -> bytes of <id>.ms)
    persist_path,     \* memstore: "" for a storage manager that is not persisted
    shutdowns,        \* memstore: shutdown calls made so far
    at_shutdown,      \* memstore: None, or Some(containers as of the last shutdown)
    fresh,            \* memstore: containers loaded by new() after a shutdown and
                      \* not inserted into, removed or persisted again since
    read_count,       \* feature "profile": container id -> HeapFile.read_count
    write_count,      \* feature "profile": container id -> HeapFile.write_count
    get_log,          \* feature "profile": the <<container id, page id>> of the
                      \* get_page calls that returned a page so far
    threads,          \* thread -> the heap-store call it is in and how far it is
    cursor,           \* container id -> position of its File, which every thread
                      \* seeks, reads and writes through the same handle
    locks,            \* RwLock name -> the threads holding a read guard, the
                      \* thread holding the write guard, and whether it is poisoned
    write_preferring, \* TRUE: an RwLock refuses new readers while a writer waits
    id_to_db,         \* ServerState.id_to_db: database id -> the
                      \* active_client_connections of its DatabaseState
    active_connections \* ServerState.active_connections: client id -> database id

vars == <<overflow_checks, status, page, adds, live, last, iter, iter_done, yielded,
          heapfiles, written, containers, last_insert, stored, inserts,
          disk, persist_path, shutdowns, at_shutdown, fresh,
          read_count, write_count, get_log, threads, cursor,
          locks, write_preferring, id_to_db, active_connections>>

pageVars == <<page, adds, live, iter, iter_done, yielded>>

bpVars == <<read_count, write_count, get_log>>

thrVars == <<threads, cursor>>

heapVars == <<heapfiles, written, bpVars, thrVars>>

srvVars == <<locks, write_preferring, id_to_db, active_connections>>

memDisk == <<disk, persist_path, shutdowns, at_shutdown, fresh>>

memVars == <<containers, last_insert, stored, inserts, memDisk>>

SrvUnused ==
    /\ locks = <<>>
    /\ write_preferring = FALSE
    /\ id_to_db = <<>>
    /\ active_connections = <<>>

MemUnused ==
    /\ containers = <<>>
    /\ last_insert = <<>>
    /\ stored = <<>>
    /\ inserts = 0
    /\ disk = <<>>
    /\ persist_path = ""
    /\ shutdowns = 0
    /\ at_shutdown = <<>>
    /\ fresh = {}

\* ------------------------------------------------------------------------
\* Sizes.  The page size of the source is 4096; the model packs the same
\* layout into a smaller block so that full pages are reachable.
PAGE_SIZE == 40

U16 == 65536

\* mem::size_of::<PageId>() and mem::size_of::<u16>()
SIZE_OF_U16 == 2

\* mem::size_of::<Slot>(): three u16 fields
SIZE_OF_SLOT == 3 * SIZE_OF_U16

\* Page ids used for pages built in the model
MaxPageId == 1

PageIds == 0..MaxPageId

\* Most add_value calls made on one modelled page; slot ids up to this
\* number are probed by get_value / delete_value calls
MaxAdds == 5

SlotIds == 0..MaxAdds

None == <<>>

Some(x) == <<x>>

Fill(n, b) == [i \in 1..n |-> b]

\* Byte vectors offered to add_value
Values == {Fill(1, 170), Fill(2, 204)}

Wrap16(x) == x % U16

\* ------------------------------------------------------------------------
\* Helpers on sequences

RECURSIVE SortAsc(_)
SortAsc(s) ==
    IF Len(s) = 0 THEN <<>>
    ELSE LET m == CHOOSE i \in 1..Len(s) : \A j \in 1..Len(s) : s[i] <= s[j]
         IN <<s[m]>> \o SortAsc([k \in 1..(Len(s) - 1) |-> IF k < m THEN s[k] ELSE s[k + 1]])

RemoveAt(s, i) == [k \in 1..(Len(s) - 1) |-> IF k < i THEN s[k] ELSE s[k + 1]]

\* position(|s| s.slot_id == slot_id): first directory index (1-based) or 0
Position(slots, slot_id) ==
    IF \E i \in 1..Len(slots) : slots[i].slot_id = slot_id
    THEN CHOOSE i \in 1..Len(slots) :
            /\ slots[i].slot_id = slot_id
            /\ \A j \in 1..(i - 1) : slots[j].slot_id # slot_id
    ELSE 0

\* to_le_bytes of a u16
LeBytes(x) == <<x % 256, (x \div 256) % 256>>

\* u16::from_le_bytes
FromLe(lo, hi) == lo + 256 * hi

\* ------------------------------------------------------------------------
\* Page

Slot_new(slot_id, slot_offset, size) ==
    [slot_id |-> slot_id, slot_offset |-> slot_offset, size |-> size]

get_size(header_slots) ==
    SIZE_OF_U16 + (SIZE_OF_SLOT * Len(header_slots)) + SIZE_OF_U16

Page_new(page_id) ==
    [page_id |-> page_id,
     slots |-> <<>>,
     largest_free_space |-> PAGE_SIZE - SIZE_OF_U16 - SIZE_OF_U16,
     data |-> Fill(PAGE_SIZE, 0)]

get_page_id(p) == p.page_id

get_header_size(p) == get_size(p.slots)

get_largest_free_contiguous_space(p) == p.largest_free_space

IdVec(p) == SortAsc([i \in 1..Len(p.slots) |-> p.slots[i].slot_id])

\* the "find the new id value" loop of find_free
RECURSIVE NewSlotIdFrom(_, _)
NewSlotIdFrom(id_vec, new_s_id) ==
    IF new_s_id < Len(id_vec) /\ new_s_id = id_vec[new_s_id + 1]
    THEN NewSlotIdFrom(id_vec, new_s_id + 1)
    ELSE new_s_id

\* a slip: the next id is the number of directory entries
NewSlotId_count(p) == Len(p.slots)

NewSlotId(p) == NewSlotIdFrom(IdVec(p), 0)

\* the "while counter <= vec_len" loop of find_free; counter is 0-based.
\* Result: the start index and whether a u16 subtraction overflowed.
RECURSIVE StartIndexFrom(_, _, _)
StartIndexFrom(slots, input_size, counter) ==
    LET vec_len == Len(slots)
        in16 == Wrap16(input_size)
    IN  IF counter = vec_len
        THEN [start |-> Wrap16(slots[counter].slot_offset - in16),
              overflow |-> slots[counter].slot_offset < in16]
        ELSE IF /\ counter # vec_len - 1
                /\ slots[counter + 1].slot_offset
                     > slots[counter + 2].slot_offset + slots[counter + 2].size
                /\ slots[counter + 1].slot_offset
                     - (slots[counter + 2].slot_offset + slots[counter + 2].size) >= in16
             THEN [start |-> slots[counter + 2].slot_offset + slots[counter + 2].size,
                   overflow |-> FALSE]
             ELSE StartIndexFrom(slots, input_size, counter + 1)

\* find_free: [id, start, overflow].  A usize that wrapped below zero is kept
\* as the negative number it stands for.
find_free(p, input_size) ==
    IF Len(p.slots) = 0
    THEN [id |-> NewSlotId(p), start |-> PAGE_SIZE - input_size,
          overflow |-> input_size > PAGE_SIZE]
    ELSE LET r == StartIndexFrom(p.slots, input_size, 0)
         IN [id |-> NewSlotId(p), start |-> r.start, overflow |-> r.overflow]

WriteAt(data, start, bytes) ==
    [i \in 1..Len(data) |->
        IF i > start /\ i <= start + Len(bytes) THEN bytes[i - start] ELSE data[i]]

ZeroRange(data, start, end) ==
    [i \in 1..Len(data) |-> IF i > start /\ i <= end THEN 0 ELSE data[i]]

\* add_value: [page, ret, panic]
add_value(p, bytes, checks) ==
    LET input_len == Len(bytes)
        place_in == find_free(p, input_len)
        new_id == place_in.id
        start_index == place_in.start
        end_index == IF start_index < 0 THEN PAGE_SIZE ELSE start_index + input_len
    IN  IF checks /\ place_in.overflow
        THEN [page |-> p, ret |-> None, panic |-> TRUE]
        ELSE IF input_len > p.largest_free_space
        THEN [page |-> p, ret |-> None, panic |-> FALSE]
        ELSE IF start_index < 0 \/ start_index > end_index \/ end_index > PAGE_SIZE
        THEN [page |-> p, ret |-> None, panic |-> TRUE]
        ELSE LET placed == [p EXCEPT
                     !.data = WriteAt(p.data, start_index, bytes),
                     !.slots = Append(p.slots,
                                 Slot_new(Wrap16(new_id), Wrap16(start_index), Wrap16(input_len)))]
                 dec == Wrap16(input_len + SIZE_OF_SLOT)
             IN IF checks /\ p.largest_free_space < dec
                THEN [page |-> placed, ret |-> None, panic |-> TRUE]
                ELSE [page |-> [placed EXCEPT
                                  !.largest_free_space = Wrap16(p.largest_free_space - dec)],
                      ret |-> Some(Wrap16(new_id)), panic |-> FALSE]

Slice(data, start, end) == [i \in 1..(end - start) |-> data[start + i]]

\* get_value: Option<Vec<u8>>
get_value(p, slot_id) ==
    LET index == Position(p.slots, slot_id)
    IN  IF index = 0 THEN None
        ELSE Some(Slice(p.data, p.slots[index].slot_offset,
                        p.slots[index].slot_offset + p.slots[index].size))

\* a slip: slot 0 is taken to be directory entry 0 when removing, too
delete_value_first_entry(p, slot_id) ==
    LET index == Position(p.slots, slot_id)
    IN  IF index = 0 THEN [page |-> p, ret |-> None]
        ELSE IF slot_id = 0
        THEN [page |-> [p EXCEPT
                          !.data = ZeroRange(p.data, p.slots[1].slot_offset, PAGE_SIZE),
                          !.slots = RemoveAt(p.slots, 1)],
              ret |-> Some(<<>>)]
        ELSE [page |-> [p EXCEPT
                          !.data = ZeroRange(p.data, p.slots[index].slot_offset,
                                      p.slots[index].slot_offset + p.slots[index].size),
                          !.slots = RemoveAt(p.slots, index)],
              ret |-> Some(<<>>)]

\* delete_value: [page, ret]
delete_value(p, slot_id) ==
    LET index == Position(p.slots, slot_id)
    IN  IF index = 0 THEN [page |-> p, ret |-> None]
        ELSE IF slot_id = 0
        THEN [page |-> [p EXCEPT
                          !.data = ZeroRange(p.data, p.slots[1].slot_offset, PAGE_SIZE),
                          !.slots = RemoveAt(p.slots, index)],
              ret |-> Some(<<>>)]
        ELSE [page |-> [p EXCEPT
                          !.data = ZeroRange(p.data, p.slots[index].slot_offset,
                                      p.slots[index].slot_offset + p.slots[index].size),
                          !.slots = RemoveAt(p.slots, index)],
              ret |-> Some(<<>>)]

\* the slot loop of from_bytes: directory entry k (0-based) starts at byte 4 + 6k
RECURSIVE ReadSlots(_, _, _)
ReadSlots(data, slot_num, counter) ==
    IF counter >= slot_num THEN <<>>
    ELSE LET index == 2 * SIZE_OF_U16 + SIZE_OF_SLOT * counter
         IN <<Slot_new(FromLe(data[index + 1], data[index + 2]),
                       FromLe(data[index + 3], data[index + 4]),
                       FromLe(data[index + 5], data[index + 6]))>>
            \o ReadSlots(data, slot_num, counter + 1)

RECURSIVE FreeAfter(_, _, _)
FreeAfter(slots, counter, largest_free_space) ==
    IF counter > Len(slots) THEN largest_free_space
    ELSE FreeAfter(slots, counter + 1,
                   IF largest_free_space > slots[counter].size
                   THEN largest_free_space - slots[counter].size
                   ELSE 0)

\* from_bytes on a block whose directory lies inside the block
from_bytes(data) ==
    LET page_id == FromLe(data[1], data[2])
        slot_num == FromLe(data[3], data[4])
        slot_vec == ReadSlots(data, slot_num, 0)
    IN [page_id |-> page_id,
        slots |-> slot_vec,
        largest_free_space |->
            Wrap16(FreeAfter(slot_vec, 1, PAGE_SIZE - get_size(slot_vec))),
        data |-> data]

RECURSIVE SlotBytes(_, _)
SlotBytes(slots, k) ==
    IF k > Len(slots) THEN <<>>
    ELSE LeBytes(slots[k].slot_id) \o LeBytes(slots[k].slot_offset)
         \o LeBytes(slots[k].size) \o SlotBytes(slots, k + 1)

HeaderInfo(p) ==
    LeBytes(p.page_id) \o LeBytes(Wrap16(Len(p.slots))) \o SlotBytes(p.slots, 1)

\* get_bytes: [bytes, panic]
get_bytes(p) ==
    LET header_info == HeaderInfo(p)
    IN  IF Len(header_info) > p.largest_free_space \/ Len(header_info) > PAGE_SIZE
        THEN [bytes |-> <<>>, panic |-> TRUE]
        ELSE [bytes |-> WriteAt(p.data, 0, header_info), panic |-> FALSE]

\* ------------------------------------------------------------------------
\* PageIter

into_iter(p) == [slot |-> 0, slot_count |-> Len(p.slots), page |-> p]

\* PageIter::next: [iter, ret]
RECURSIVE PageIter_next(_)
PageIter_next(it) ==
    IF it.slot <= it.slot_count
    THEN LET v == get_value(it.page, Wrap16(it.slot))
         IN IF Len(v) = 1
            THEN [iter |-> [it EXCEPT !.slot = it.slot + 1], ret |-> v]
            ELSE PageIter_next([it EXCEPT !.slot = it.slot + 1])
    ELSE [iter |-> it, ret |-> None]

\* ------------------------------------------------------------------------
\* Calls on one Page

Without(f, k) == [x \in (DOMAIN f) \ {k} |-> f[x]]

InitPage ==
    /\ overflow_checks \in BOOLEAN
    /\ SrvUnused
    /\ status = "ok"
    /\ \E pid \in PageIds : page = Page_new(pid)
    /\ adds = 0
    /\ live = <<>>
    /\ last = [op |-> "new", arg |-> <<>>, ret |-> None, pre |-> page, prelive |-> live]
    /\ iter = None
    /\ iter_done = FALSE
    /\ yielded = <<>>
    /\ heapfiles = <<>>
    /\ written = <<>>
    /\ read_count = <<>>
    /\ write_count = <<>>
    /\ get_log = <<>>
    /\ threads = <<>>
    /\ cursor = <<>>
    /\ MemUnused

AddValue(bytes) ==
    /\ status = "ok"
    /\ iter = None
    /\ adds < MaxAdds
    /\ adds' = adds + 1
    /\ LET r == add_value(page, bytes, overflow_checks)
       IN /\ page' = r.page
          /\ status' = IF r.panic THEN "panic" ELSE "ok"
          /\ live' = IF Len(r.ret) = 1 THEN (r.ret[1] :> bytes) @@ live ELSE live
          /\ last' = [op |-> "add_value", arg |-> bytes, ret |-> r.ret,
                      pre |-> page, prelive |-> live]
    /\ UNCHANGED <<overflow_checks, srvVars, iter, iter_done, yielded, heapVars, memVars>>

DeleteValue(slot_id) ==
    /\ status = "ok"
    /\ iter = None
    /\ LET r == delete_value(page, slot_id)
       IN /\ page' = r.page
          /\ live' = IF Len(r.ret) = 1 THEN Without(live, slot_id) ELSE live
          /\ last' = [op |-> "delete_value", arg |-> slot_id, ret |-> r.ret,
                      pre |-> page, prelive |-> live]
    /\ UNCHANGED <<overflow_checks, srvVars, status, adds, iter, iter_done, yielded, heapVars, memVars>>

GetValue(slot_id) ==
    /\ status = "ok"
    /\ iter = None
    /\ last' = [op |-> "get_value", arg |-> slot_id, ret |-> get_value(page, slot_id),
                pre |-> page, prelive |-> live]
    /\ UNCHANGED <<overflow_checks, srvVars, status, page, adds, live, iter, iter_done, yielded, heapVars, memVars>>

\* Page::from_bytes(&p.get_bytes())
RoundTrip ==
    /\ status = "ok"
    /\ iter = None
    /\ LET b == get_bytes(page)
       IN /\ status' = IF b.panic THEN "panic" ELSE "ok"
          /\ last' = [op |-> "from_bytes", arg |-> b.bytes,
                      ret |-> IF b.panic THEN None ELSE Some(from_bytes(b.bytes)),
                      pre |-> page, prelive |-> live]
    /\ UNCHANGED <<overflow_checks, srvVars, page, adds, live, iter, iter_done, yielded, heapVars, memVars>>

IntoIter ==
    /\ status = "ok"
    /\ iter = None
    /\ iter' = Some(into_iter(page))
    /\ last' = [op |-> "into_iter", arg |-> <<>>, ret |-> None,
                pre |-> page, prelive |-> live]
    /\ UNCHANGED <<overflow_checks, srvVars, status, page, adds, live, iter_done, yielded, heapVars, memVars>>

IterNext ==
    /\ status = "ok"
    /\ Len(iter) = 1
    /\ ~iter_done
    /\ LET r == PageIter_next(iter[1])
       IN /\ iter' = Some(r.iter)
          /\ iter_done' = (Len(r.ret) = 0)
          /\ yielded' = IF Len(r.ret) = 1 THEN Append(yielded, r.ret[1]) ELSE yielded
          /\ last' = [op |-> "next", arg |-> <<>>, ret |-> r.ret,
                      pre |-> page, prelive |-> live]
    /\ UNCHANGED <<overflow_checks, srvVars, status, page, adds, live, heapVars, memVars>>

NextPage ==
    \/ \E bytes \in Values : AddValue(bytes)
    \/ \E slot_id \in SlotIds : DeleteValue(slot_id)
    \/ \E slot_id \in SlotIds : GetValue(slot_id)
    \/ RoundTrip
    \/ IntoIter
    \/ IterNext

SpecPage == InitPage /\ [][NextPage]_vars

\* ------------------------------------------------------------------------
\* Claims about one Page

SlotIdsOf(p) == {p.slots[i].slot_id : i \in 1..Len(p.slots)}

\* C1: as long as slot id s is live, get_value(s) returns exactly the bytes
\* passed to the add_value call that returned s, whatever calls on other
\* slots happened in between.
C1_GetValueReturnsWritten ==
    status = "ok" => \A s \in DOMAIN live : get_value(page, s) = Some(live[s])

\* C4: Page::from_bytes(P.get_bytes()) has the page id of P and, for every
\* slot id, the get_value result of P.
C4_RoundTrip ==
    last.op = "from_bytes" =>
        /\ status = "ok"
        /\ Len(last.ret) = 1
        /\ get_page_id(last.ret[1]) = get_page_id(page)
        /\ \A s \in SlotIds : get_value(last.ret[1], s) = get_value(page, s)

\* C6: a successful add_value returns the smallest non-negative integer that
\* is not the slot id of a live record at the time of the call; the slot ids
\* of the directory are pairwise distinct and are exactly the live ids.
C6_SmallestFreeSlotId ==
    status = "ok" =>
        /\ (last.op = "add_value" /\ Len(last.ret) = 1) =>
               /\ last.ret[1] \notin DOMAIN last.prelive
               /\ \A n \in 0..(last.ret[1] - 1) : n \in DOMAIN last.prelive
        /\ \A i, j \in 1..Len(page.slots) :
               i # j => page.slots[i].slot_id # page.slots[j].slot_id
        /\ SlotIdsOf(page) = DOMAIN live

\* C6 witness: an add_value reused a freed id below a live one
C6_Witness ==
    /\ status = "ok"
    /\ last.op = "add_value"
    /\ Len(last.ret) = 1
    /\ \E n \in DOMAIN last.prelive : n > last.ret[1]

\* C7: add_value returns None whenever the page's free space is less than
\* bytes.len() + 6; it then completes normally and leaves the page unchanged.
C7_RejectsWhenNoRoom ==
    (/\ last.op = "add_value"
     /\ get_largest_free_contiguous_space(last.pre) < Len(last.arg) + SIZE_OF_SLOT) =>
        /\ status = "ok"
        /\ Len(last.ret) = 0
        /\ page = last.pre

Rejected(p, bytes) ==
    LET r == add_value(p, bytes, overflow_checks) IN ~r.panic /\ Len(r.ret) = 0

Accepted(p, bytes) ==
    LET r == add_value(p, bytes, overflow_checks) IN ~r.panic /\ Len(r.ret) = 1

C9_NoneIffNotLive ==
    status = "ok" =>
        /\ \A s \in SlotIds : (Len(get_value(page, s)) = 0) <=> (s \notin DOMAIN live)
        /\ last.op = "get_value" =>
               ((Len(last.ret) = 0) <=> (last.arg \notin DOMAIN last.prelive))
        /\ last.op = "delete_value" =>
               IF last.arg \notin DOMAIN last.prelive
               THEN Len(last.ret) = 0 /\ page = last.pre
               ELSE /\ Len(last.ret) = 1
                    /\ Len(get_value(page, last.arg)) = 0
                    /\ last.arg \notin DOMAIN live

\* C9 witness: slot 0 was deleted while it was not the first directory entry
\* and other records stay live
C9_Witness ==
    /\ status = "ok"
    /\ last.op = "delete_value"
    /\ last.arg = 0
    /\ Len(last.ret) = 1
    /\ last.pre.slots[1].slot_id # 0
    /\ DOMAIN live # {}

LiveBytesAscending(p) ==
    [k \in 1..Len(p.slots) |-> get_value(p, IdVec(p)[k])[1]]

\* C10: iterating a page yields the bytes of every live record exactly once,
\* in ascending slot-id order, and nothing else, then None.
C10_IterYieldsAllLive ==
    (status = "ok" /\ iter_done) => yielded = LiveBytesAscending(page)

\* C11: on every page built from Page::new by successful add_value and
\* delete_value calls, get_bytes completes without aborting and returns
\* exactly PAGE_SIZE bytes.
C11_GetBytesCompletes ==
    last.op = "from_bytes" =>
        /\ status = "ok"
        /\ Len(last.arg) = PAGE_SIZE

\* ------------------------------------------------------------------------
\* HeapFile: the file is its sequence of bytes

ContainerIds == {1}

\* Page ids of the pages written to a heap file
MaxFilePageId == 2

FilePageIds == 0..MaxFilePageId

\* Byte vectors offered to insert_value and put on the pages that are written:
\* one that leaves a page less room than its own length, and one that takes
\* all the free space of an empty page
HeapValues == {Fill(PAGE_SIZE \div 2, 187), Fill(PAGE_SIZE - 2 * SIZE_OF_U16, 221)}

num_pages(file) == Wrap16(Len(file) \div PAGE_SIZE)

\* a slip in the seek: the page is written at byte offset page_id
write_page_to_file_unscaled(file, p) ==
    LET b == get_bytes(p)
        pos == p.page_id
        newlen == IF Len(file) > pos + PAGE_SIZE THEN Len(file) ELSE pos + PAGE_SIZE
    IN  IF b.panic THEN [file |-> file, panic |-> TRUE]
        ELSE [file |-> [i \in 1..newlen |->
                          IF i > pos /\ i <= pos + PAGE_SIZE THEN b.bytes[i - pos]
                          ELSE IF i <= Len(file) THEN file[i] ELSE 0],
              panic |-> FALSE]

\* write_page_to_file: [file, panic]; seeking past the end and writing
\* fills the gap with zero bytes
write_page_to_file(file, p) ==
    LET b == get_bytes(p)
        pos == p.page_id * PAGE_SIZE
        newlen == IF Len(file) > pos + PAGE_SIZE THEN Len(file) ELSE pos + PAGE_SIZE
    IN  IF b.panic THEN [file |-> file, panic |-> TRUE]
        ELSE [file |-> [i \in 1..newlen |->
                          IF i > pos /\ i <= pos + PAGE_SIZE THEN b.bytes[i - pos]
                          ELSE IF i <= Len(file) THEN file[i] ELSE 0],
              panic |-> FALSE]

\* read_page_from_file: the buffer starts as zeros, read_exact fills what the
\* file has from start_index on, its error is dropped
read_page_from_file(file, pid) ==
    LET start_index == PAGE_SIZE * pid
    IN from_bytes([i \in 1..PAGE_SIZE |->
                     IF start_index + i <= Len(file) THEN file[start_index + i] ELSE 0])

\* Pages handed to write_page: built from Page::new by add_value and
\* delete_value calls that returned
PagesNew == {Page_new(pid) : pid \in FilePageIds}

PagesAfterAdd(ps, checks) ==
    {add_value(p, b, checks).page :
        <<p, b>> \in {x \in ps \X HeapValues :
                        LET r == add_value(x[1], x[2], checks)
                        IN ~r.panic /\ Len(r.ret) = 1}}

PagesAfterDelete(ps) == {delete_value(p, 0).page : p \in ps}

PagesToWrite(checks) ==
    LET p1 == PagesNew \cup PagesAfterAdd(PagesNew, checks)
    IN  p1 \cup PagesAfterDelete(p1)

\* ------------------------------------------------------------------------
\* Heap-store StorageManager

ValueId_new(container_id, page_id, slot_id) ==
    [container_id |-> container_id, segment_id |-> None,
     page_id |-> page_id, slot_id |-> slot_id]

InitHeap ==
    /\ overflow_checks \in BOOLEAN
    /\ SrvUnused
    /\ status = "ok"
    /\ page = Page_new(0)
    /\ adds = 0
    /\ live = <<>>
    /\ last = [op |-> "new", arg |-> <<>>, ret |-> None, pre |-> page, prelive |-> live]
    /\ iter = None
    /\ iter_done = FALSE
    /\ yielded = <<>>
    /\ heapfiles = <<>>
    /\ written = <<>>
    /\ read_count = <<>>
    /\ write_count = <<>>
    /\ get_log = <<>>
    /\ threads = <<>>
    /\ cursor = <<>>
    /\ MemUnused

\* create_container: registers a HeapFile over a new, empty file unless the
\* container is registered already
CreateContainer(c) ==
    /\ status = "ok"
    /\ heapfiles' = IF c \in DOMAIN heapfiles THEN heapfiles ELSE (c :> <<>>) @@ heapfiles
    /\ written' = IF c \in DOMAIN heapfiles THEN written ELSE (c :> <<>>) @@ written
    /\ last' = [op |-> "create_container", arg |-> c, ret |-> None,
                pre |-> heapfiles, prelive |-> live]
    /\ UNCHANGED <<overflow_checks, srvVars, status, pageVars, memVars, bpVars, thrVars>>

\* StorageManager::write_page -> HeapFile::write_page_to_file
WritePage(c, p) ==
    /\ status = "ok"
    /\ IF c \notin DOMAIN heapfiles
       THEN /\ status' = "panic"
            /\ UNCHANGED heapVars
       ELSE LET w == write_page_to_file(heapfiles[c], p)
            IN /\ status' = IF w.panic THEN "panic" ELSE "ok"
               /\ heapfiles' = [heapfiles EXCEPT ![c] = w.file]
               /\ written' = IF w.panic THEN written
                             ELSE [written EXCEPT
                                     ![c] = (p.page_id :> get_bytes(p).bytes) @@ @]
    /\ last' = [op |-> "write_page", arg |-> <<c, p>>, ret |-> None,
                pre |-> heapfiles, prelive |-> live]
    /\ UNCHANGED <<overflow_checks, srvVars, pageVars, memVars, bpVars, thrVars>>

\* StorageManager::get_page -> HeapFile::read_page_from_file
GetPage(c, pid) ==
    /\ status = "ok"
    /\ last' = [op |-> "get_page", arg |-> <<c, pid>>,
                ret |-> IF c \notin DOMAIN heapfiles THEN None
                        ELSE Some(read_page_from_file(heapfiles[c], pid)),
                pre |-> heapfiles, prelive |-> live]
    /\ UNCHANGED <<overflow_checks, srvVars, status, pageVars, heapVars, memVars>>

\* the page loop of insert_value: [ret, panic], ret the ValueId if a page of
\* the file took the value into its in-memory copy
RECURSIVE InsertScan(_, _, _, _, _)
InsertScan(file, container_id, value, page_id, checks) ==
    IF page_id < num_pages(file)
    THEN LET pg == read_page_from_file(file, page_id)
             r == add_value(pg, value, checks)
         IN IF r.panic THEN [ret |-> None, panic |-> TRUE]
            ELSE IF Len(r.ret) = 1
            THEN [ret |-> Some(ValueId_new(container_id, Some(pg.page_id), Some(r.ret[1]))),
                  panic |-> FALSE]
            ELSE InsertScan(file, container_id, value, page_id + 1, checks)
    ELSE [ret |-> None, panic |-> FALSE]

\* insert_value: [file, ret, panic, wrote]
insert_value(file, container_id, value, checks) ==
    IF Len(value) > PAGE_SIZE
    THEN [file |-> file, ret |-> None, panic |-> TRUE, wrote |-> None]
    ELSE LET scan == InsertScan(file, container_id, value, 0, checks)
         IN IF scan.panic \/ Len(scan.ret) = 1
            THEN [file |-> file, ret |-> scan.ret, panic |-> scan.panic, wrote |-> None]
            ELSE LET new_page == Page_new(num_pages(file))
                     w == write_page_to_file(file, new_page)
                 IN [file |-> w.file,
                     ret |-> IF w.panic THEN None
                             ELSE Some(ValueId_new(container_id, Some(num_pages(file)), Some(0))),
                     panic |-> w.panic,
                     wrote |-> IF w.panic THEN None ELSE Some(new_page)]

InsertValue(c, value) ==
    /\ status = "ok"
    /\ IF c \notin DOMAIN heapfiles
       THEN /\ status' = "panic"
            /\ last' = [op |-> "insert_value", arg |-> <<c, value>>, ret |-> None,
                        pre |-> heapfiles, prelive |-> live]
            /\ UNCHANGED heapVars
       ELSE /\ num_pages(heapfiles[c]) <= MaxFilePageId + 1
            /\ LET r == insert_value(heapfiles[c], c, value, overflow_checks)
               IN /\ status' = IF r.panic THEN "panic" ELSE "ok"
                  /\ heapfiles' = [heapfiles EXCEPT ![c] = r.file]
                  /\ written' = IF Len(r.wrote) = 0 THEN written
                                ELSE [written EXCEPT
                                        ![c] = (r.wrote[1].page_id :> get_bytes(r.wrote[1]).bytes) @@ @]
                  /\ last' = [op |-> "insert_value", arg |-> <<c, value>>, ret |-> r.ret,
                              pre |-> heapfiles, prelive |-> live]
    /\ UNCHANGED <<overflow_checks, srvVars, pageVars, memVars, bpVars, thrVars>>

NextHeap ==
    \/ \E c \in ContainerIds : CreateContainer(c)
    \/ \E c \in ContainerIds : \E p \in PagesToWrite(overflow_checks) : WritePage(c, p)
    \/ \E c \in ContainerIds : \E pid \in FilePageIds : GetPage(c, pid)
    \/ \E c \in ContainerIds : \E value \in HeapValues : InsertValue(c, value)

SpecHeap == InitHeap /\ [][NextHeap]_vars

\* ------------------------------------------------------------------------
\* Claims about the heap file and the heap-store StorageManager

\* C2: whenever insert_value(c, b) returns a ValueId (c, p, s), page p of
\* container c, as a following get_page returns it, holds exactly b in slot s.
C2_InsertVisible ==
    (status = "ok" /\ last.op = "insert_value" /\ Len(last.ret) = 1) =>
        LET vid == last.ret[1]
            pg == read_page_from_file(heapfiles[vid.container_id], vid.page_id[1])
        IN get_value(pg, vid.slot_id[1]) = Some(last.arg[2])

\* C5: write_page_to_file(P) followed, with no other write of the same page
\* id in between, by read_page_from_file(P.page_id) returns a page whose
\* get_bytes() equals P.get_bytes(), also after writes of other page ids.
C5_WriteThenRead ==
    (status = "ok" /\ last.op = "get_page" /\ Len(last.ret) = 1) =>
        LET c == last.arg[1]
            pid == last.arg[2]
        IN pid \in DOMAIN written[c] =>
              get_bytes(last.ret[1]) = [bytes |-> written[c][pid], panic |-> FALSE]

\* The pages of a file that take the value: add_value on the page as read
\* returns a slot id
AcceptingPages(file, value) ==
    {pid \in 0..(num_pages(file) - 1) :
        Accepted(read_page_from_file(file, pid), value)}

MinOf(S) == CHOOSE x \in S : \A y \in S : x <= y

\* C12: insert_value is first fit by ascending page id: when it returns, it
\* names the smallest existing page id whose page accepts the value and the
\* slot id add_value assigns on that page, and the file does not grow; only
\* when no existing page accepts the value it allocates one page, whose id is
\* the previous num_pages.
C12_FirstFit ==
    (/\ status = "ok"
     /\ last.op = "insert_value"
     /\ Len(last.ret) = 1) =>
        LET c == last.arg[1]
            value == last.arg[2]
            before == last.pre[c]
            fits == AcceptingPages(before, value)
            vid == last.ret[1]
        IN  IF fits # {}
            THEN /\ vid.page_id = Some(MinOf(fits))
                 /\ vid.slot_id =
                        add_value(read_page_from_file(before, MinOf(fits)),
                                  value, overflow_checks).ret
                 /\ num_pages(heapfiles[c]) = num_pages(before)
            ELSE /\ vid.page_id = Some(num_pages(before))
                 /\ num_pages(heapfiles[c]) = num_pages(before) + 1

\* C12 witness: a value was placed on page 1 because page 0 did not accept it
C12_Witness ==
    /\ status = "ok"
    /\ last.op = "insert_value"
    /\ Len(last.ret) = 1
    /\ last.ret[1].page_id = Some(1)
    /\ num_pages(last.pre[last.arg[1]]) = 2
    /\ num_pages(heapfiles[last.arg[1]]) = 2

\* C13: insert_value of a value that cannot fit in an empty page (longer than
\* PAGE_SIZE less the fixed header and one slot entry) returns without a
\* ValueId and without side effects: the file and its num_pages are unchanged.
C13_OversizedRejected ==
    (/\ last.op = "insert_value"
     /\ last.arg[1] \in DOMAIN last.pre
     /\ Len(last.arg[2]) > PAGE_SIZE - 4 * SIZE_OF_U16 - SIZE_OF_SLOT) =>
        /\ status = "ok"
        /\ Len(last.ret) = 0
        /\ heapfiles = last.pre

\* C14: read_page_from_file(pid) with pid >= num_pages() returns no page.
C14_ReadOutOfRangeFails ==
    (/\ status = "ok"
     /\ last.op = "get_page"
     /\ last.arg[1] \in DOMAIN heapfiles
     /\ last.arg[2] >= num_pages(heapfiles[last.arg[1]])) =>
        Len(last.ret) = 0

MaxInserts == 3

MemContainerIds == {1, 2}

MemValues == {Fill(1, 170), Fill(2, 204)}

Ok(x) == [ok |-> TRUE, val |-> x]

Err == [ok |-> FALSE, val |-> <<>>]

\* A memstore ValueId: only the container and the slot are set.
MemValueId(container_id, slot) == ValueId_new(container_id, None, Some(slot))

MemSlots == (0..(MaxInserts - 1)) \cup {U16 - 1}

MemIds == {MemValueId(c, sl) : c \in MemContainerIds, sl \in MemSlots}

\* StorageManager::new("") / new_test_sm: no containers, no last insert.
Mem_new == [containers |-> <<>>, last_insert |-> <<>>]

\* The storage manager after `n` insert_value(c, value) calls on a new
\* container c followed by delete_value of every id but slot 0: the map holds
\* slot 0 and last_insert is the id of the n-th insert.
Mem_after_inserts(c, n, value) ==
    [containers  |-> (c :> (MemValueId(c, 0) :> value)),
     last_insert |-> (c :> MemValueId(c, n - 1))]

\* create_container that registers an empty container on every call
Mem_create_container_always(sm, container_id) ==
    [sm EXCEPT !.containers = (container_id :> <<>>) @@ @]

Mem_create_container(sm, container_id) ==
    IF container_id \in DOMAIN sm.containers
        THEN sm
        ELSE [sm EXCEPT !.containers = (container_id :> <<>>) @@ @]

Mem_remove_container(sm, container_id) ==
    IF container_id \notin DOMAIN sm.containers
        THEN sm
        ELSE [sm EXCEPT !.containers = Without(@, container_id)]

\* next_slot is a u16: `slot + 1` aborts when overflow checks are compiled in
\* and wraps to 0 otherwise.
Mem_next_slot(sm, container_id) ==
    IF container_id \notin DOMAIN sm.last_insert
        THEN 0
        ELSE sm.last_insert[container_id].slot_id[1] + 1

Mem_insert_value(sm, container_id, value, checks) ==
    IF container_id \notin DOMAIN sm.containers
        THEN [sm |-> sm, ret |-> None, panic |-> TRUE]
        ELSE LET next_slot == Mem_next_slot(sm, container_id)
             IN IF next_slot >= U16 /\ checks
                    THEN [sm |-> sm, ret |-> None, panic |-> TRUE]
                    ELSE LET rid == MemValueId(container_id, Wrap16(next_slot))
                         IN [sm |-> [containers  |-> [sm.containers EXCEPT
                                         ![container_id] = (rid :> value) @@ @],
                                     last_insert |-> (container_id :> rid) @@ sm.last_insert],
                             ret |-> Some(rid),
                             panic |-> FALSE]

Mem_delete_value(sm, id) ==
    IF id.container_id \in DOMAIN sm.containers
        THEN IF id \in DOMAIN sm.containers[id.container_id]
                THEN [sm |-> [sm EXCEPT !.containers[id.container_id] = Without(@, id)],
                      ret |-> Ok(<<>>)]
                ELSE [sm |-> sm, ret |-> Ok(<<>>)]
        ELSE [sm |-> sm, ret |-> Err]

\* update_value: `self.delete_value(id, _tid)?;` then
\* `Ok(self.insert_value(id.container_id, value, _tid))`
Mem_update_value(sm, value, id, checks) ==
    LET d == Mem_delete_value(sm, id)
    IN IF ~d.ret.ok
          THEN [sm |-> d.sm, ret |-> Err, panic |-> FALSE]
          ELSE LET i == Mem_insert_value(d.sm, id.container_id, value, checks)
               IN [sm |-> i.sm,
                   ret |-> IF i.panic THEN Err ELSE Ok(i.ret[1]),
                   panic |-> i.panic]

Mem_get_value(sm, id) ==
    IF id.container_id \in DOMAIN sm.containers
        THEN IF id \in DOMAIN sm.containers[id.container_id]
                THEN Ok(sm.containers[id.container_id][id])
                ELSE Err
        ELSE Err

\* ------------------------------------------------------------------------
\* serde_cbor::to_writer / from_reader on a container map
\* (HashMap<ValueId, Vec<u8>>), as shutdown and load use them.  A struct is a
\* CBOR map keyed by its field names, a Vec<u8> an array of integers, None
\* the null byte.

Text_container_id == <<99, 111, 110, 116, 97, 105, 110, 101, 114, 95, 105, 100>>

Text_segment_id == <<115, 101, 103, 109, 101, 110, 116, 95, 105, 100>>

Text_page_id == <<112, 97, 103, 101, 95, 105, 100>>

Text_slot_id == <<115, 108, 111, 116, 95, 105, 100>>

CborUint(n) ==
    IF n < 24 THEN <<n>>
    ELSE IF n < 256 THEN <<24, n>>
    ELSE <<25, n \div 256, n % 256>>

CborOpt(o) == IF Len(o) = 0 THEN <<246>> ELSE CborUint(o[1])

CborText(chars) == <<96 + Len(chars)>> \o chars

CborValueId(id) ==
    <<164>> \o CborText(Text_container_id) \o CborUint(id.container_id)
            \o CborText(Text_segment_id) \o CborOpt(id.segment_id)
            \o CborText(Text_page_id) \o CborOpt(id.page_id)
            \o CborText(Text_slot_id) \o CborOpt(id.slot_id)

RECURSIVE CborUints(_, _)
CborUints(v, k) ==
    IF k > Len(v) THEN <<>> ELSE CborUint(v[k]) \o CborUints(v, k + 1)

CborVec(v) ==
    (IF Len(v) < 24 THEN <<128 + Len(v)>> ELSE <<152, Len(v)>>) \o CborUints(v, 1)

\* the entries of the map, in one of the orders the HashMap may iterate in
RECURSIVE CborEntries(_, _)
CborEntries(vals, ids) ==
    IF ids = {} THEN <<>>
    ELSE LET id == CHOOSE x \in ids : \A y \in ids : x.slot_id[1] <= y.slot_id[1]
         IN CborValueId(id) \o CborVec(vals[id]) \o CborEntries(vals, ids \ {id})

to_writer(vals) ==
    LET n == Cardinality(DOMAIN vals)
    IN (IF n < 24 THEN <<160 + n>> ELSE <<184, n>>) \o CborEntries(vals, DOMAIN vals)

\* Parsers: [ok, v, next], next the index after the item
ParseFail == [ok |-> FALSE, v |-> <<>>, next |-> 0]

ParseUint(b, i) ==
    IF i > Len(b) THEN ParseFail
    ELSE IF b[i] < 24 THEN [ok |-> TRUE, v |-> b[i], next |-> i + 1]
    ELSE IF b[i] = 24 /\ i + 1 <= Len(b) THEN [ok |-> TRUE, v |-> b[i + 1], next |-> i + 2]
    ELSE IF b[i] = 25 /\ i + 2 <= Len(b)
         THEN [ok |-> TRUE, v |-> b[i + 1] * 256 + b[i + 2], next |-> i + 3]
    ELSE ParseFail

ParseSome(r) == IF r.ok THEN [r EXCEPT !.v = Some(r.v)] ELSE ParseFail

ParseOpt(b, i) ==
    IF i > Len(b) THEN ParseFail
    ELSE IF b[i] = 246 THEN [ok |-> TRUE, v |-> None, next |-> i + 1]
    ELSE ParseSome(ParseUint(b, i))

ParseText(b, i) ==
    IF i > Len(b) \/ b[i] < 96 \/ b[i] > 119 \/ i + (b[i] - 96) > Len(b) THEN ParseFail
    ELSE [ok |-> TRUE, v |-> SubSeq(b, i + 1, i + (b[i] - 96)), next |-> i + 1 + (b[i] - 96)]

\* the ValueId with the field set to the parsed value f
ParsePut(acc, name, f) ==
    IF f.ok THEN [ok |-> TRUE, v |-> [acc EXCEPT ![name] = f.v], next |-> f.next]
    ELSE ParseFail

\* the value of the field whose name is the parsed text t
ParseFieldValue(b, acc, t) ==
    IF ~t.ok THEN ParseFail
    ELSE IF t.v = Text_container_id THEN ParsePut(acc, "container_id", ParseUint(b, t.next))
    ELSE IF t.v = Text_segment_id THEN ParsePut(acc, "segment_id", ParseOpt(b, t.next))
    ELSE IF t.v = Text_page_id THEN ParsePut(acc, "page_id", ParseOpt(b, t.next))
    ELSE IF t.v = Text_slot_id THEN ParsePut(acc, "slot_id", ParseOpt(b, t.next))
    ELSE ParseFail

\* one field (name, value) of a ValueId, after the parse state st
ParseField(b, st) ==
    IF ~st.ok THEN ParseFail ELSE ParseFieldValue(b, st.v, ParseText(b, st.next))

ParseValueId(b, i) ==
    IF i > Len(b) \/ b[i] # 164 THEN ParseFail
    ELSE ParseField(b, ParseField(b, ParseField(b, ParseField(b,
            [ok |-> TRUE, v |-> ValueId_new(0, None, None), next |-> i + 1]))))

RECURSIVE ParseUints(_, _, _, _)
ParseUintsFrom(b, k, acc, r) ==
    IF r.ok THEN ParseUints(b, r.next, k - 1, Append(acc, r.v)) ELSE ParseFail

ParseUints(b, i, k, acc) ==
    IF k = 0 THEN [ok |-> TRUE, v |-> acc, next |-> i]
    ELSE ParseUintsFrom(b, k, acc, ParseUint(b, i))

\* the header of an array (major 128) or a map (major 160): v is the count
ParseCount(b, i, major) ==
    IF i > Len(b) THEN ParseFail
    ELSE IF b[i] >= major /\ b[i] < major + 24
         THEN [ok |-> TRUE, v |-> b[i] - major, next |-> i + 1]
    ELSE IF b[i] = major + 24 /\ i + 1 <= Len(b)
         THEN [ok |-> TRUE, v |-> b[i + 1], next |-> i + 2]
    ELSE ParseFail

ParseVecFrom(b, h) ==
    IF h.ok THEN ParseUints(b, h.next, h.v, <<>>) ELSE ParseFail

ParseVec(b, i) == ParseVecFrom(b, ParseCount(b, i, 128))

RECURSIVE ParseEntries(_, _, _, _)
ParseEntryValue(b, k, acc, key, val) ==
    IF val.ok THEN ParseEntries(b, val.next, k - 1, (key.v :> val.v) @@ acc) ELSE ParseFail

ParseEntryKey(b, k, acc, key) ==
    IF key.ok THEN ParseEntryValue(b, k, acc, key, ParseVec(b, key.next)) ELSE ParseFail

ParseEntries(b, i, k, acc) ==
    IF k = 0 THEN [ok |-> TRUE, v |-> acc, next |-> i]
    ELSE ParseEntryKey(b, k, acc, ParseValueId(b, i))

ParseMapFrom(b, h) ==
    IF h.ok THEN ParseEntries(b, h.next, h.v, <<>>) ELSE ParseFail

ParseMap(b, i) == ParseMapFrom(b, ParseCount(b, i, 160))

\* from_reader: one value, then the end of the input: bytes left over after
\* the value are an error (trailing data)
ParseEnd(b, r) ==
    IF r.ok /\ r.next = Len(b) + 1 THEN Ok(r.v) ELSE Err

from_reader(b) == ParseEnd(b, ParseMap(b, 1))

\* A file opened with write(true).create(true), without truncate, and written
\* from offset 0: bytes of the old content beyond the new content stay.
OverwriteFrom0(old, new) ==
    new \o SubSeq(old, Len(new) + 1, Len(old))

\* shutdown: the directory after it.  dir is None while the directory does
\* not exist, else Some(container id -> file bytes); path "" is the storage
\* manager that is not persisted.
RECURSIVE PersistAll(_, _, _)
PersistAll(sm, files, cs) ==
    IF cs = {} THEN files
    ELSE LET c_id == CHOOSE c \in cs : TRUE
             old == IF c_id \in DOMAIN files THEN files[c_id] ELSE <<>>
             new == OverwriteFrom0(old, to_writer(sm.containers[c_id]))
         IN PersistAll(sm, (c_id :> new) @@ files, cs \ {c_id})

Mem_shutdown(sm, dir, path) ==
    IF path = "" THEN dir
    ELSE Some(PersistAll(sm, IF Len(dir) = 0 THEN <<>> ELSE dir[1],
                         DOMAIN sm.containers))

MaxSlotOf(ids) ==
    LET slots == {0} \cup {id.slot_id[1] : id \in {x \in ids : Len(x.slot_id) = 1}}
    IN CHOOSE m \in slots : \A x \in slots : x <= m

\* load: [sm, panic]; a file that does not deserialize aborts the
\* construction (expect("cannot read file"))
Mem_load(files) ==
    IF \E c \in DOMAIN files : ~from_reader(files[c]).ok
    THEN [sm |-> Mem_new, panic |-> TRUE]
    ELSE [sm |-> [containers  |-> [c \in DOMAIN files |-> from_reader(files[c]).val],
                  last_insert |-> [c \in DOMAIN files |->
                        MemValueId(c, MaxSlotOf(DOMAIN from_reader(files[c]).val))]],
          panic |-> FALSE]

\* StorageManager::new(storage_path)
Mem_new_at(dir, storage_path) ==
    IF storage_path # "" /\ Len(dir) = 1
    THEN Mem_load(dir[1])
    ELSE [sm |-> Mem_new, panic |-> FALSE]

TheSM == [containers |-> containers, last_insert |-> last_insert]

\* The states a memstore storage manager is started from: new, or with a
\* container that has handed out all slot ids but the last one.
MemSeeds ==
    {Mem_new} \cup {Mem_after_inserts(1, U16 - 1, v) : v \in MemValues}

StoredOf(sm) ==
    LET ids == UNION {DOMAIN sm.containers[c] : c \in DOMAIN sm.containers}
    IN [id \in ids |-> sm.containers[id.container_id][id]]

MaxShutdowns == 2

PersistContainerIds == {1}

InitMem ==
    /\ overflow_checks \in BOOLEAN
    /\ SrvUnused
    /\ status = "ok"
    /\ page = Page_new(0)
    /\ adds = 0
    /\ live = <<>>
    /\ last = [op |-> "new", arg |-> <<>>, ret |-> None, pre |-> {}, prelive |-> <<>>]
    /\ iter = None
    /\ iter_done = FALSE
    /\ yielded = <<>>
    /\ heapfiles = <<>>
    /\ written = <<>>
    /\ read_count = <<>>
    /\ write_count = <<>>
    /\ get_log = <<>>
    /\ threads = <<>>
    /\ cursor = <<>>
    /\ \E sm \in MemSeeds :
            /\ containers = sm.containers
            /\ last_insert = sm.last_insert
            /\ stored = StoredOf(sm)
    /\ inserts = 0
    /\ disk = None
    /\ persist_path = ""
    /\ shutdowns = 0
    /\ at_shutdown = None
    /\ fresh = {}

MemCreateContainer(c) ==
    /\ status = "ok"
    /\ iter = None
    /\ LET sm == Mem_create_container(TheSM, c)
       IN /\ containers' = sm.containers
          /\ last_insert' = sm.last_insert
    /\ last' = [op |-> "mem_create_container", arg |-> c, ret |-> Ok(<<>>),
                pre |-> fresh, prelive |-> stored]
    /\ UNCHANGED <<overflow_checks, srvVars, status, pageVars, heapVars, stored, inserts, memDisk>>

MemRemoveContainer(c) ==
    /\ status = "ok"
    /\ iter = None
    /\ LET sm == Mem_remove_container(TheSM, c)
       IN /\ containers' = sm.containers
          /\ last_insert' = sm.last_insert
    /\ stored' = [id \in {i \in DOMAIN stored : i.container_id # c} |-> stored[id]]
    /\ fresh' = fresh \ {c}
    /\ last' = [op |-> "mem_remove_container", arg |-> c, ret |-> Ok(<<>>),
                pre |-> fresh, prelive |-> stored]
    /\ UNCHANGED <<overflow_checks, srvVars, status, pageVars, heapVars, inserts,
                   disk, persist_path, shutdowns, at_shutdown>>

MemInsertValue(c, value) ==
    /\ status = "ok"
    /\ iter = None
    /\ inserts < MaxInserts
    /\ inserts' = inserts + 1
    /\ LET r == Mem_insert_value(TheSM, c, value, overflow_checks)
       IN /\ containers' = r.sm.containers
          /\ last_insert' = r.sm.last_insert
          /\ status' = IF r.panic THEN "panic" ELSE "ok"
          /\ stored' = IF r.panic THEN stored ELSE (r.ret[1] :> value) @@ stored
          /\ fresh' = IF r.panic THEN fresh ELSE fresh \ {c}
          /\ last' = [op |-> "mem_insert_value", arg |-> <<c, value>>, ret |-> r.ret,
                      pre |-> fresh, prelive |-> stored]
    /\ UNCHANGED <<overflow_checks, srvVars, pageVars, heapVars,
                   disk, persist_path, shutdowns, at_shutdown>>

MemDeleteValue(id) ==
    /\ status = "ok"
    /\ iter = None
    /\ LET r == Mem_delete_value(TheSM, id)
       IN /\ containers' = r.sm.containers
          /\ last_insert' = r.sm.last_insert
          /\ stored' = IF r.ret.ok /\ id \in DOMAIN stored THEN Without(stored, id) ELSE stored
          /\ last' = [op |-> "mem_delete_value", arg |-> id, ret |-> r.ret,
                      pre |-> fresh, prelive |-> stored]
    /\ UNCHANGED <<overflow_checks, srvVars, status, pageVars, heapVars, inserts, memDisk>>

MemGetValue(id) ==
    /\ status = "ok"
    /\ iter = None
    /\ last' = [op |-> "mem_get_value", arg |-> id, ret |-> Mem_get_value(TheSM, id),
                pre |-> fresh, prelive |-> stored]
    /\ UNCHANGED <<overflow_checks, srvVars, status, pageVars, heapVars, memVars>>

\* shutdown(&self): the storage manager stays usable afterwards
MemShutdown ==
    /\ status = "ok"
    /\ iter = None
    /\ shutdowns < MaxShutdowns
    /\ shutdowns' = shutdowns + 1
    /\ disk' = Mem_shutdown(TheSM, disk, persist_path)
    /\ at_shutdown' = Some(containers)
    /\ last' = [op |-> "mem_shutdown", arg |-> <<>>, ret |-> None,
                pre |-> fresh, prelive |-> stored]
    /\ fresh' = {}
    /\ UNCHANGED <<overflow_checks, srvVars, status, pageVars, heapVars,
                   containers, last_insert, stored, inserts, persist_path>>

\* the storage manager is dropped and StorageManager::new(persist_path)
\* builds the next one
MemRestart ==
    /\ status = "ok"
    /\ iter = None
    /\ LET r == Mem_new_at(disk, persist_path)
       IN /\ containers' = r.sm.containers
          /\ last_insert' = r.sm.last_insert
          /\ status' = IF r.panic THEN "panic" ELSE "ok"
          /\ stored' = StoredOf(r.sm)
          /\ fresh' = IF at_shutdown = None THEN {} ELSE DOMAIN r.sm.containers
    /\ last' = [op |-> "mem_new", arg |-> <<>>, ret |-> None,
                pre |-> fresh, prelive |-> stored]
    /\ UNCHANGED <<overflow_checks, srvVars, pageVars, heapVars,
                   inserts, disk, persist_path, shutdowns, at_shutdown>>

NextMem ==
    \/ \E c \in MemContainerIds : MemCreateContainer(c)
    \/ \E c \in MemContainerIds : MemRemoveContainer(c)
    \/ \E c \in MemContainerIds, value \in MemValues : MemInsertValue(c, value)
    \/ \E id \in MemIds : MemDeleteValue(id)
    \/ \E id \in MemIds : MemGetValue(id)

SpecMem == InitMem /\ [][NextMem]_vars

\* C3: memstore: the ValueId returned by insert_value(c, b) reads back as b,
\* and every value inserted earlier still reads back as the bytes it was
\* inserted with after a later insert_value, and after a delete_value of
\* another ValueId.
C3_InsertThenGet ==
    status = "ok" =>
        /\ (last.op = "mem_insert_value") =>
                /\ Len(last.ret) = 1
                /\ Mem_get_value(TheSM, last.ret[1]) = Ok(last.arg[2])
                /\ \A id \in DOMAIN last.prelive :
                        Mem_get_value(TheSM, id) = Ok(last.prelive[id])
        /\ (last.op = "mem_delete_value") =>
                \A id \in (DOMAIN last.prelive) \ {last.arg} :
                        Mem_get_value(TheSM, id) = Ok(last.prelive[id])

\* ------------------------------------------------------------------------
\* The memstore StorageManager with shutdown and a new storage manager over
\* the same path

InitMemPersist ==
    /\ overflow_checks \in BOOLEAN
    /\ SrvUnused
    /\ status = "ok"
    /\ page = Page_new(0)
    /\ adds = 0
    /\ live = <<>>
    /\ last = [op |-> "new", arg |-> <<>>, ret |-> None, pre |-> {}, prelive |-> <<>>]
    /\ iter = None
    /\ iter_done = FALSE
    /\ yielded = <<>>
    /\ heapfiles = <<>>
    /\ written = <<>>
    /\ read_count = <<>>
    /\ write_count = <<>>
    /\ get_log = <<>>
    /\ threads = <<>>
    /\ cursor = <<>>
    /\ \E sm \in MemSeeds :
            /\ containers = sm.containers
            /\ last_insert = sm.last_insert
            /\ stored = StoredOf(sm)
    /\ inserts = 0
    /\ disk = None
    /\ persist_path \in {"", "db"}
    /\ shutdowns = 0
    /\ at_shutdown = None
    /\ fresh = {}

PersistIds == {id \in MemIds : id.container_id \in PersistContainerIds}

NextMemPersist ==
    \/ \E c \in PersistContainerIds : MemCreateContainer(c)
    \/ \E c \in PersistContainerIds : MemRemoveContainer(c)
    \/ \E c \in PersistContainerIds, value \in MemValues : MemInsertValue(c, value)
    \/ \E id \in PersistIds : MemDeleteValue(id)
    \/ MemShutdown
    \/ MemRestart

SpecMemPersist == InitMemPersist /\ [][NextMemPersist]_vars

\* ------------------------------------------------------------------------
\* The memstore ValueIterator

MaxYields == 5

\* get_iterator: [it, panic]; both lookups are unwrapped, so a container that
\* does not exist, or one that was never inserted into, aborts the call.
Mem_get_iterator(sm, container_id) ==
    IF container_id \notin DOMAIN sm.containers \/ container_id \notin DOMAIN sm.last_insert
    THEN [it |-> None, panic |-> TRUE]
    ELSE LET lst == sm.last_insert[container_id].slot_id
         IN [it |-> Some([tracker   |-> MemValueId(container_id, 0),
                          max       |-> IF Len(lst) = 0 THEN 0 ELSE lst[1],
                          table_map |-> sm.containers[container_id],
                          current   |-> 0]),
             panic |-> FALSE]

\* The slot ids the loop of next() finds a record at: from the tracker's slot
\* on, while current <= max.
ValueIterator_hits(it) ==
    {id.slot_id[1] : id \in {x \in DOMAIN it.table_map :
        /\ x = MemValueId(it.tracker.container_id, x.slot_id[1])
        /\ x.slot_id[1] >= it.tracker.slot_id[1]
        /\ it.current + (x.slot_id[1] - it.tracker.slot_id[1]) <= it.max}}

\* The iterator after k more rounds of the loop (tracker and current are u16)
ValueIterator_advance(it, k) ==
    [it EXCEPT !.tracker.slot_id = Some(Wrap16(it.tracker.slot_id[1] + k)),
               !.current = Wrap16(it.current + k)]

\* next: [it, ret, panic, hang].  Each round of the loop adds 1 to the
\* tracker's slot and to current: at 65535 that aborts when overflow checks are
\* compiled in and wraps to 0 otherwise, and then current <= max stays true.
ValueIterator_next(it, checks) ==
    LET hits == ValueIterator_hits(it)
        slot == it.tracker.slot_id[1]
    IN IF hits # {}
       THEN LET s == MinOf(hits)
            IN IF checks /\ (s + 1 >= U16 \/ it.current + (s - slot) + 1 >= U16)
               THEN [it |-> it, ret |-> None, panic |-> TRUE, hang |-> FALSE]
               ELSE [it |-> ValueIterator_advance(it, s - slot + 1),
                     ret |-> Some(it.table_map[MemValueId(it.tracker.container_id, s)]),
                     panic |-> FALSE, hang |-> FALSE]
       ELSE IF it.current > it.max
       THEN [it |-> it, ret |-> None, panic |-> FALSE, hang |-> FALSE]
       ELSE IF it.max < U16 - 1 /\ slot + (it.max - it.current) < U16 - 1
       THEN [it |-> ValueIterator_advance(it, it.max - it.current + 1),
             ret |-> None, panic |-> FALSE, hang |-> FALSE]
       ELSE IF checks
       THEN [it |-> it, ret |-> None, panic |-> TRUE, hang |-> FALSE]
       ELSE LET again == ValueIterator_hits([it EXCEPT !.tracker.slot_id = Some(0),
                                                      !.current = 0])
            IN IF again = {}
               THEN [it |-> it, ret |-> None, panic |-> FALSE, hang |-> TRUE]
               ELSE [it |-> [it EXCEPT !.tracker.slot_id = Some(MinOf(again) + 1),
                                       !.current = MinOf(again) + 1],
                     ret |-> Some(it.table_map[MemValueId(it.tracker.container_id,
                                                          MinOf(again))]),
                     panic |-> FALSE, hang |-> FALSE]

MemGetIterator(c) ==
    /\ status = "ok"
    /\ iter = None
    /\ LET r == Mem_get_iterator(TheSM, c)
       IN /\ iter' = r.it
          /\ status' = IF r.panic THEN "panic" ELSE "ok"
    /\ iter_done' = FALSE
    /\ yielded' = <<>>
    /\ last' = [op |-> "mem_get_iterator", arg |-> c, ret |-> None,
                pre |-> fresh, prelive |-> stored]
    /\ UNCHANGED <<overflow_checks, srvVars, page, adds, live, heapVars, memVars>>

MemIterNext ==
    /\ status = "ok"
    /\ iter # None
    /\ ~iter_done
    /\ Len(yielded) < MaxYields
    /\ LET r == ValueIterator_next(iter[1], overflow_checks)
       IN /\ iter' = Some(r.it)
          /\ status' = IF r.panic THEN "panic" ELSE IF r.hang THEN "hang" ELSE "ok"
          /\ iter_done' = (~r.panic /\ ~r.hang /\ r.ret = None)
          /\ yielded' = IF r.ret = None THEN yielded ELSE Append(yielded, r.ret[1])
          /\ last' = [op |-> "mem_iter_next", arg |-> iter[1].tracker.container_id,
                      ret |-> r.ret, pre |-> fresh, prelive |-> stored]
    /\ UNCHANGED <<overflow_checks, srvVars, page, adds, live, heapVars, memVars>>

\* the iterator is dropped
MemIterDrop ==
    /\ status = "ok"
    /\ iter # None
    /\ iter' = None
    /\ iter_done' = FALSE
    /\ yielded' = <<>>
    /\ last' = [op |-> "mem_iter_drop", arg |-> <<>>, ret |-> None,
                pre |-> fresh, prelive |-> stored]
    /\ UNCHANGED <<overflow_checks, srvVars, status, page, adds, live, heapVars, memVars>>

NextMemIter ==
    \/ \E c \in PersistContainerIds : MemCreateContainer(c)
    \/ \E c \in PersistContainerIds : MemRemoveContainer(c)
    \/ \E c \in PersistContainerIds, value \in MemValues : MemInsertValue(c, value)
    \/ \E id \in PersistIds : MemDeleteValue(id)
    \/ \E c \in MemContainerIds : MemGetIterator(c)
    \/ MemIterNext
    \/ MemIterDrop

SpecMemIter == InitMem /\ [][NextMemIter]_vars

\* the records of container c in ascending slot order
RECURSIVE ValuesAscending(_, _)
ValuesAscending(vals, ids) ==
    IF ids = {} THEN <<>>
    ELSE LET id == CHOOSE x \in ids : \A y \in ids : x.slot_id[1] <= y.slot_id[1]
         IN <<vals[id]>> \o ValuesAscending(vals, ids \ {id})

IsPrefix(a, b) == Len(a) <= Len(b) /\ a = SubSeq(b, 1, Len(a))

\* C16: memstore: get_iterator on a container that exists completes, also
\* when nothing was inserted into it, and the iterator yields exactly the
\* records of the container that are not deleted, each once, in ascending slot
\* order, and then None.
C16_IteratorYieldsLive ==
    /\ (last.op = "mem_get_iterator" /\ last.arg \in DOMAIN containers) => status = "ok"
    /\ last.op = "mem_iter_next" =>
        LET expected == ValuesAscending(containers[last.arg], DOMAIN containers[last.arg])
        IN /\ status = "ok"
           /\ IsPrefix(yielded, expected)
           /\ iter_done => yielded = expected

\* ------------------------------------------------------------------------
\* HeapFileIterator

RECURSIVE AddAll(_, _, _)
AddAll(p, vs, checks) ==
    IF vs = <<>> THEN p ELSE AddAll(add_value(p, Head(vs), checks).page, Tail(vs), checks)

\* Pages written to the files that are iterated: empty, with one and two
\* records, and with records left after deletes (slot 1 only, slot 2 only)
IterPages(checks) ==
    UNION {LET a == Fill(1, 170 + pid)
               b == Fill(2, 204 + pid)
               two == AddAll(Page_new(pid), <<a, b>>, checks)
               three == AddAll(Page_new(pid), <<a, b, a>>, checks)
           IN {Page_new(pid),
               AddAll(Page_new(pid), <<a>>, checks),
               two,
               delete_value(two, 0).page,
               delete_value(delete_value(three, 0).page, 1).page}
           : pid \in PageIds}

\* HeapFileIterator::new: the page iterator of page 0, whatever the file holds
HeapFileIterator_new(file) ==
    [curr_p_iter |-> into_iter(read_page_from_file(file, 0)), curr_pid |-> 0]

\* HeapFileIterator::next: [it, ret]
RECURSIVE HeapFileIterator_next(_, _)
HeapFileIterator_next(it, file) ==
    LET pageCnt == num_pages(file)
    IN IF it.curr_pid <= pageCnt
       THEN LET r == PageIter_next(it.curr_p_iter)
            IN IF Len(r.ret) = 1
               THEN [it |-> [it EXCEPT !.curr_p_iter = r.iter], ret |-> r.ret]
               ELSE HeapFileIterator_next(
                        [curr_p_iter |-> into_iter(read_page_from_file(file, it.curr_pid + 1)),
                         curr_pid |-> it.curr_pid + 1], file)
       ELSE [it |-> it, ret |-> None]

\* pages_at_new is not a field of the struct: it remembers num_pages() as of
\* HeapFileIterator::new
HeapIterNew(c) ==
    /\ status = "ok"
    /\ iter = None
    /\ c \in DOMAIN heapfiles
    /\ iter' = Some([container_id |-> c, pages_at_new |-> num_pages(heapfiles[c])]
                    @@ HeapFileIterator_new(heapfiles[c]))
    /\ iter_done' = FALSE
    /\ yielded' = <<>>
    /\ last' = [op |-> "heapfileiter_new", arg |-> c, ret |-> None,
                pre |-> heapfiles, prelive |-> live]
    /\ UNCHANGED <<overflow_checks, srvVars, status, page, adds, live, heapVars, memVars>>

HeapIterNext ==
    /\ status = "ok"
    /\ iter # None
    /\ ~iter_done
    /\ LET c == iter[1].container_id
           r == HeapFileIterator_next(iter[1], heapfiles[c])
       IN /\ iter' = Some([container_id |-> c, pages_at_new |-> iter[1].pages_at_new]
                          @@ r.it)
          /\ iter_done' = (r.ret = None)
          /\ yielded' = IF r.ret = None THEN yielded ELSE Append(yielded, r.ret[1])
          /\ last' = [op |-> "heapfileiter_next", arg |-> c, ret |-> r.ret,
                      pre |-> heapfiles, prelive |-> live]
    /\ UNCHANGED <<overflow_checks, srvVars, status, page, adds, live, heapVars, memVars>>

\* the iterator is dropped
HeapIterDrop ==
    /\ status = "ok"
    /\ iter # None
    /\ iter' = None
    /\ iter_done' = FALSE
    /\ yielded' = <<>>
    /\ last' = [op |-> "heapfileiter_drop", arg |-> <<>>, ret |-> None,
                pre |-> heapfiles, prelive |-> live]
    /\ UNCHANGED <<overflow_checks, srvVars, status, page, adds, live, heapVars, memVars>>

NextHeapIter ==
    \/ \E c \in ContainerIds : iter = None /\ CreateContainer(c)
    \/ \E c \in ContainerIds : \E p \in IterPages(overflow_checks) : iter = None /\ WritePage(c, p)
    \/ \E c \in ContainerIds : HeapIterNew(c)
    \/ HeapIterNext
    \/ HeapIterDrop

SpecHeapIter == InitHeap /\ [][NextHeapIter]_vars

\* the records of the pages 0 .. n-1 of a file, page by page, each page in
\* ascending slot order
RECURSIVE FileBytesAscending(_, _)
FileBytesAscending(file, n) ==
    IF n = 0 THEN <<>>
    ELSE FileBytesAscending(file, n - 1)
            \o LiveBytesAscending(read_page_from_file(file, n - 1))

\* C17: the HeapFileIterator yields every live record of the file exactly
\* once, in ascending (page id, slot id) order, and then None; on a file with
\* no pages it yields None at once.
C17_HeapFileIterYieldsLive ==
    last.op = "heapfileiter_next" =>
        LET expected == FileBytesAscending(heapfiles[last.arg], num_pages(heapfiles[last.arg]))
        IN /\ status = "ok"
           /\ IsPrefix(yielded, expected)
           /\ iter_done => yielded = expected

\* ------------------------------------------------------------------------
\* Claims about memstore persistence

Persisted == Len(at_shutdown) = 1 /\ persist_path # ""

\* C18: after shutdown() of a storage manager with a persistent path, the
\* storage manager constructed over the same path is built without aborting
\* and get_value returns, for every ValueId that was live at the shutdown,
\* the bytes it held then; also after several shutdowns with inserts and
\* deletes in between.
C18_RestartKeepsValues ==
    (last.op = "mem_new" /\ Persisted) =>
        /\ status = "ok"
        /\ \A c \in DOMAIN at_shutdown[1] : \A id \in DOMAIN at_shutdown[1][c] :
                Mem_get_value(TheSM, id) = Ok(at_shutdown[1][c][id])

\* C19: after shutdown() and a new storage manager over the same path, the
\* first insert_value into a container that had live values at the shutdown
\* returns the slot id one greater than the highest slot id that was live in
\* that container.
C19_FirstInsertAfterRestart ==
    (/\ last.op = "mem_insert_value"
     /\ Persisted
     /\ last.arg[1] \in last.pre
     /\ last.arg[1] \in DOMAIN at_shutdown[1]
     /\ at_shutdown[1][last.arg[1]] # <<>>)
        => /\ status = "ok"
           /\ last.ret = Some(MemValueId(last.arg[1],
                    MaxSlotOf(DOMAIN at_shutdown[1][last.arg[1]]) + 1))

\* C20: remove_container(c) destroys the container: get_value of its ids
\* fails afterwards, a later create_container(c) gives an empty container,
\* and a new storage manager built after a shutdown holds no container that
\* was not there at the shutdown, even if an earlier shutdown persisted it.
C20_RemovedStaysRemoved ==
    /\ last.op = "mem_remove_container" =>
            /\ last.arg \notin DOMAIN containers
            /\ \A id \in MemIds : id.container_id = last.arg => ~Mem_get_value(TheSM, id).ok
    /\ (/\ last.op = "mem_create_container"
        /\ \A id \in DOMAIN last.prelive : id.container_id # last.arg)
            => containers[last.arg] = <<>>
    /\ (last.op = "mem_new" /\ Persisted /\ status = "ok") =>
            DOMAIN containers \subseteq DOMAIN at_shutdown[1]

\* ------------------------------------------------------------------------
\* The heap-store StorageManager behind the storage trait: insert_value as
\* above; delete_value, update_value and get_value have the body
\* panic!("TODO milestone hs")

HeapStoreContainerIds == {1, 2}

HeapIds ==
    {ValueId_new(c, Some(pid), Some(slot)) :
        c \in HeapStoreContainerIds, pid \in PageIds, slot \in 0..1}

HeapDeleteValue(id) ==
    /\ status = "ok"
    /\ status' = "panic"
    /\ last' = [op |-> "delete_value", arg |-> id, ret |-> None,
                pre |-> heapfiles, prelive |-> live]
    /\ UNCHANGED <<overflow_checks, srvVars, pageVars, heapVars, memVars>>

HeapUpdateValue(value, id) ==
    /\ status = "ok"
    /\ status' = "panic"
    /\ last' = [op |-> "update_value", arg |-> <<value, id>>, ret |-> None,
                pre |-> heapfiles, prelive |-> live]
    /\ UNCHANGED <<overflow_checks, srvVars, pageVars, heapVars, memVars>>

HeapGetValue(id) ==
    /\ status = "ok"
    /\ status' = "panic"
    /\ last' = [op |-> "get_value", arg |-> id, ret |-> None,
                pre |-> heapfiles, prelive |-> live]
    /\ UNCHANGED <<overflow_checks, srvVars, pageVars, heapVars, memVars>>

NextHeapStore ==
    \/ \E c \in ContainerIds : CreateContainer(c)
    \/ \E c \in ContainerIds : \E value \in HeapValues : InsertValue(c, value)
    \/ \E c \in ContainerIds : \E pid \in FilePageIds : GetPage(c, pid)
    \/ \E id \in HeapIds : HeapDeleteValue(id)
    \/ \E id \in HeapIds : \E value \in HeapValues : HeapUpdateValue(value, id)
    \/ \E id \in HeapIds : HeapGetValue(id)

SpecHeapStore == InitHeap /\ [][NextHeapStore]_vars

\* ------------------------------------------------------------------------
\* Claims about the storage trait (memstore and heap store)

\* the value a heap-store ValueId names in the file of its container, if any
HeapStoredAt(files, id) ==
    IF id.container_id \notin DOMAIN files THEN None
    ELSE get_value(read_page_from_file(files[id.container_id], id.page_id[1]), id.slot_id[1])

\* C21: delete_value(v) for a ValueId v that is not stored in its existing
\* container returns Ok and changes no state, and delete_value of a stored v
\* removes v and nothing else (so a second delete_value(v) changes nothing);
\* in the memstore and in the heap store.
C21_DeleteMissingIsNoOp ==
    [][/\ (/\ last'.op = "mem_delete_value"
           /\ last'.arg.container_id \in DOMAIN containers)
            => /\ status' = "ok"
               /\ last'.ret = Ok(<<>>)
               /\ last_insert' = last_insert
               /\ DOMAIN containers' = DOMAIN containers
               /\ \A c \in DOMAIN containers :
                    containers'[c] =
                        [id \in (DOMAIN containers[c]) \ {last'.arg} |-> containers[c][id]]
       /\ (/\ last'.op = "delete_value"
           /\ last'.arg.container_id \in DOMAIN heapfiles
           /\ HeapStoredAt(heapfiles, last'.arg) = None)
            => /\ status' = "ok"
               /\ heapfiles' = heapfiles
      ]_vars

\* C22: delete_value(v) where v.container_id names no existing container is
\* an idempotent success: it returns Ok, not an error, and changes no state.
C22_DeleteInMissingContainerIsOk ==
    [][(/\ last'.op = "mem_delete_value"
        /\ last'.arg.container_id \notin DOMAIN containers)
          => /\ status' = "ok"
             /\ last'.ret = Ok(<<>>)
             /\ containers' = containers
             /\ last_insert' = last_insert
      ]_vars

\* C23: get_value(v) returns an error value, without aborting and without
\* returning stale bytes, whenever v's container does not exist or v is not
\* stored in it (after delete_value(v), or a slot id never issued), and it
\* leaves the store unchanged; in the memstore and in the heap store.
C23_GetMissingIsError ==
    [][/\ (/\ last'.op = "mem_get_value"
           /\ \/ last'.arg.container_id \notin DOMAIN containers
              \/ last'.arg \notin DOMAIN containers[last'.arg.container_id])
            => /\ status' = "ok"
               /\ last'.ret = Err
               /\ containers' = containers
               /\ last_insert' = last_insert
       /\ (/\ last'.op = "get_value"
           /\ HeapStoredAt(heapfiles, last'.arg) = None)
            => /\ status' = "ok"
               /\ last'.ret = Err
               /\ heapfiles' = heapfiles
      ]_vars

\* ------------------------------------------------------------------------
\* The memstore StorageManager with update_value

MemUpdateValue(value, id) ==
    /\ status = "ok"
    /\ iter = None
    /\ inserts < MaxInserts
    /\ inserts' = inserts + 1
    /\ LET r == Mem_update_value(TheSM, value, id, overflow_checks)
       IN /\ containers' = r.sm.containers
          /\ last_insert' = r.sm.last_insert
          /\ status' = IF r.panic THEN "panic" ELSE "ok"
          /\ stored' = IF r.panic \/ ~r.ret.ok
                          THEN stored
                          ELSE (r.ret.val :> value) @@ Without(stored, id)
          /\ fresh' = IF r.panic \/ ~r.ret.ok THEN fresh ELSE fresh \ {id.container_id}
          /\ last' = [op |-> "mem_update_value", arg |-> <<value, id>>, ret |-> r.ret,
                      pre |-> fresh, prelive |-> stored]
    /\ UNCHANGED <<overflow_checks, srvVars, pageVars, heapVars,
                   disk, persist_path, shutdowns, at_shutdown>>

NextMemUpdate ==
    \/ NextMem
    \/ \E id \in MemIds, value \in MemValues : MemUpdateValue(value, id)

SpecMemUpdate == InitMem /\ [][NextMemUpdate]_vars

C24_Step ==
    /\ (/\ last'.op = "mem_update_value"
        /\ last'.arg[2].container_id \in DOMAIN containers)
         => LET after == [containers |-> containers', last_insert |-> last_insert']
                v == last'.arg[2]
            IN /\ status' = "ok"
               /\ last'.ret.ok
               /\ Mem_get_value(after, last'.ret.val) = Ok(last'.arg[1])
               /\ (last'.ret.val # v) => Mem_get_value(after, v) = Err
               /\ \A id \in (DOMAIN StoredOf(TheSM)) \ {v} :
                     Mem_get_value(after, id) = Mem_get_value(TheSM, id)
    /\ (/\ last'.op = "update_value"
        /\ last'.arg[2].container_id \in DOMAIN heapfiles)
         => /\ status' = "ok"
            /\ last'.ret # None

\* C24: update_value(b, v) on an existing container behaves like
\* delete_value(v) followed by insert_value(v.container_id, b): it returns a
\* new id, get_value(new id) yields b, get_value(v) fails unless the new id
\* equals v, and every other stored value is unchanged; in the memstore and
\* in the heap store.
C24_UpdateIsDeleteThenInsert == [][C24_Step]_vars

\* C24 on the memstore while the slot counter stays below the u16 limit
C24_BelowSlotLimit ==
    [][(\A c \in DOMAIN last_insert : last_insert[c].slot_id[1] + 1 < U16)
         => C24_Step]_vars

PAGE_SLOTS == 1

MaxGets == 2 * PAGE_SLOTS + 2

MaxBpWrites == PAGE_SLOTS + 1

\* get_hf_read_write_count: (0, 0) for a container that is not registered
get_hf_read_write_count(c) ==
    IF c \notin DOMAIN heapfiles THEN <<0, 0>>
    ELSE <<read_count[c], write_count[c]>>

\* HeapFile::new starts both counters at 0
BpCreateContainer(c) ==
    /\ status = "ok"
    /\ heapfiles' = IF c \in DOMAIN heapfiles THEN heapfiles ELSE (c :> <<>>) @@ heapfiles
    /\ written' = IF c \in DOMAIN heapfiles THEN written ELSE (c :> <<>>) @@ written
    /\ read_count' = IF c \in DOMAIN heapfiles THEN read_count ELSE (c :> 0) @@ read_count
    /\ write_count' = IF c \in DOMAIN heapfiles THEN write_count ELSE (c :> 0) @@ write_count
    /\ last' = [op |-> "create_container", arg |-> c, ret |-> None,
                pre |-> None, prelive |-> None]
    /\ UNCHANGED <<overflow_checks, srvVars, status, pageVars, memVars, get_log, thrVars>>

\* write_page: write_count.fetch_add(1), then the write
BpWritePage(c, p) ==
    /\ status = "ok"
    /\ IF c \notin DOMAIN heapfiles
       THEN /\ status' = "panic"
            /\ UNCHANGED <<heapfiles, written, write_count>>
       ELSE /\ write_count[c] < MaxBpWrites
            /\ LET w == write_page_to_file(heapfiles[c], p)
               IN /\ status' = IF w.panic THEN "panic" ELSE "ok"
                  /\ heapfiles' = [heapfiles EXCEPT ![c] = w.file]
                  /\ written' = IF w.panic THEN written
                                ELSE [written EXCEPT
                                        ![c] = (p.page_id :> get_bytes(p).bytes) @@ @]
                  /\ write_count' = [write_count EXCEPT ![c] = Wrap16(@ + 1)]
    /\ last' = [op |-> "write_page", arg |-> <<c, p>>, ret |-> None,
                pre |-> None, prelive |-> None]
    /\ UNCHANGED <<overflow_checks, srvVars, pageVars, memVars, read_count, get_log, thrVars>>

\* get_page: no lookup of any kind before
\* HeapFile::read_page_from_file, which does read_count.fetch_add(1)
BpGetPage(c, pid) ==
    /\ status = "ok"
    /\ Len(get_log) < MaxGets
    /\ get_log' = IF c \notin DOMAIN heapfiles THEN get_log
                  ELSE Append(get_log, <<c, pid>>)
    /\ read_count' = IF c \notin DOMAIN heapfiles THEN read_count
                     ELSE [read_count EXCEPT ![c] = Wrap16(@ + 1)]
    /\ last' = [op |-> "get_page", arg |-> <<c, pid>>,
                ret |-> IF c \notin DOMAIN heapfiles THEN None
                        ELSE Some(read_page_from_file(heapfiles[c], pid)),
                pre |-> None, prelive |-> None]
    /\ UNCHANGED <<overflow_checks, srvVars, status, pageVars, heapfiles, written, memVars,
                   write_count, thrVars>>

\* reset: panic!("TODO milestone hs")
BpReset ==
    /\ status = "ok"
    /\ status' = "panic"
    /\ last' = [op |-> "reset", arg |-> <<>>, ret |-> None,
                pre |-> None, prelive |-> None]
    /\ UNCHANGED <<overflow_checks, srvVars, pageVars, heapVars, memVars>>

NextBp ==
    \/ \E c \in ContainerIds : BpCreateContainer(c)
    \/ \E c \in ContainerIds : \E p \in PagesNew : BpWritePage(c, p)
    \/ \E c \in ContainerIds : \E pid \in FilePageIds : BpGetPage(c, pid)
    \/ BpReset

SpecBp == InitHeap /\ [][NextBp]_vars

\* the keys of the pages get_page has returned so far
Fetched == {get_log[i] : i \in DOMAIN get_log}

\* C26: buffer-pool hit: a get_page(c, p) of a page that was fetched before,
\* with no eviction (at most PAGE_SLOTS different pages fetched so far) and
\* no reset in between, causes no heap-file read, the first get_page(c, p)
\* causes exactly one, and reset() returns so that the next get_page reads
\* once more.
C26_Step ==
    /\ (/\ last'.op = "get_page"
        /\ get_log' # get_log
        /\ last'.arg[1] \in DOMAIN heapfiles)
         => LET key == last'.arg
                reads == get_hf_read_write_count(key[1])[1]
            IN read_count'[key[1]] =
                 IF key \in Fetched /\ Cardinality(Fetched) <= PAGE_SLOTS
                    THEN reads
                    ELSE IF key \notin Fetched THEN reads + 1
                    ELSE read_count'[key[1]]
    /\ last'.op = "reset" => status' = "ok"

C26_BufferPoolHit == [][C26_Step]_vars

\* C26 without the part about reset
C26_HitOnly ==
    [][last'.op # "reset" => C26_Step]_vars

\* the fetches of the eviction test on container c: pages 0..PAGE_SLOTS-1,
\* the same again, then page PAGE_SLOTS twice
C27_Fetches(c) ==
    [i \in 1..MaxGets |->
        <<c, IF i <= PAGE_SLOTS THEN i - 1
             ELSE IF i <= 2 * PAGE_SLOTS THEN i - PAGE_SLOTS - 1
             ELSE PAGE_SLOTS>>]

\* the heap-file reads a pool of PAGE_SLOTS frames needs for the first k of them
C27_Reads(k) ==
    IF k <= PAGE_SLOTS THEN k
    ELSE IF k <= 2 * PAGE_SLOTS THEN PAGE_SLOTS
    ELSE PAGE_SLOTS + 1

\* C27: eviction: with PAGE_SLOTS frames and a container of PAGE_SLOTS + 1
\* pages, fetching pages 0..PAGE_SLOTS-1 costs exactly PAGE_SLOTS heap-file
\* reads, fetching them again in the same order costs none, fetching page
\* PAGE_SLOTS costs one more, and fetching it again costs none.
C27_Eviction ==
    \A c \in DOMAIN heapfiles :
        (/\ status = "ok"
         /\ num_pages(heapfiles[c]) = PAGE_SLOTS + 1
         /\ get_log = SubSeq(C27_Fetches(c), 1, Len(get_log)))
            => get_hf_read_write_count(c)[1] = C27_Reads(Len(get_log))

C28_Step ==
    (/\ last'.op = "write_page"
     /\ status' = "ok"
     /\ last'.arg[1] \in DOMAIN heapfiles')
      => LET P == last'.arg[2]
             got == read_page_from_file(heapfiles'[last'.arg[1]], P.page_id)
         IN /\ ~get_bytes(got).panic
            /\ get_bytes(got).bytes = get_bytes(P).bytes

\* C28: after write_page(c, P) returns, the next get_page(c, P.page_id)
\* returns a page whose get_bytes() equals P.get_bytes(), whether or not the
\* page was fetched before the write.
C28_GetAfterWrite == [][C28_Step]_vars

\* C28 for the build with overflow checks
C28_WithOverflowChecks == [][overflow_checks => C28_Step]_vars

\* ------------------------------------------------------------------------
\* Threads sharing one heap-store StorageManager (Arc<StorageManager>), built
\* with the feature "profile".  read_page_from_file and write_page_to_file
\* both take `self.file.read()`, the shared side of the RwLock, so no thread
\* waits for another; seek and the read or write that follows are two calls
\* on the one File.

Threads == {1, 2}

\* a page with one value of one byte
ThreadPage(pid, b) == add_value(Page_new(pid), Fill(1, b), TRUE).page

\* the file of a container of two pages, written one page after the other
ThreadFile ==
    write_page_to_file(write_page_to_file(<<>>, ThreadPage(0, 170)).file,
                       ThreadPage(1, 170)).file

ThreadWrites == {ThreadPage(pid, 204) : pid \in PageIds}

Idle == [pc |-> "idle", op |-> "", c |-> 0, pid |-> 0, page |-> None, ret |-> None]

InitThreads ==
    /\ overflow_checks \in BOOLEAN
    /\ SrvUnused
    /\ status = "ok"
    /\ page = Page_new(0)
    /\ adds = 0
    /\ live = <<>>
    /\ last = [op |-> "new", arg |-> <<>>, ret |-> None, pre |-> None, prelive |-> None]
    /\ iter = None
    /\ iter_done = FALSE
    /\ yielded = <<>>
    /\ heapfiles = [c \in ContainerIds |-> ThreadFile]
    /\ written = [c \in ContainerIds |->
                    [pid \in PageIds |-> get_bytes(ThreadPage(pid, 170)).bytes]]
    /\ read_count = [c \in ContainerIds |-> 0]
    /\ write_count = [c \in ContainerIds |-> 0]
    /\ get_log = <<>>
    /\ threads = [t \in Threads |-> Idle]
    /\ cursor = [c \in ContainerIds |-> 0]
    /\ MemUnused

\* what read_exact leaves in a zeroed buffer of PAGE_SIZE bytes when the
\* File is at pos
ReadAtPos(file, pos) ==
    [i \in 1..PAGE_SIZE |-> IF pos + i <= Len(file) THEN file[pos + i] ELSE 0]

\* the file after PAGE_SIZE bytes are written with the File at pos
WriteAtPos(file, pos, bytes) ==
    LET newlen == IF Len(file) > pos + PAGE_SIZE THEN Len(file) ELSE pos + PAGE_SIZE
    IN [i \in 1..newlen |->
          IF i > pos /\ i <= pos + PAGE_SIZE THEN bytes[i - pos]
          ELSE IF i <= Len(file) THEN file[i] ELSE 0]

\* get_page up to `self.file.read().unwrap()`: None for a container that is
\* not registered, else read_count.fetch_add(1)
ThrGetPage(t, c, pid) ==
    /\ status = "ok"
    /\ threads[t].pc = "idle"
    /\ IF c \notin DOMAIN heapfiles
       THEN /\ threads' = [threads EXCEPT ![t] =
                  [pc |-> "done", op |-> "get_page", c |-> c, pid |-> pid,
                   page |-> None, ret |-> None]]
            /\ UNCHANGED read_count
       ELSE /\ threads' = [threads EXCEPT ![t] =
                  [pc |-> "seek", op |-> "get_page", c |-> c, pid |-> pid,
                   page |-> None, ret |-> None]]
            /\ read_count' = [read_count EXCEPT ![c] = Wrap16(@ + 1)]
    /\ UNCHANGED <<overflow_checks, srvVars, status, pageVars, heapfiles, written, memVars, last,
                   write_count, get_log, cursor>>

\* write_page up to `self.file.read().unwrap()`: write_count.fetch_add(1)
ThrWritePage(t, c, p) ==
    /\ status = "ok"
    /\ threads[t].pc = "idle"
    /\ IF c \notin DOMAIN heapfiles
       THEN /\ status' = "panic"
            /\ UNCHANGED <<threads, write_count>>
       ELSE /\ threads' = [threads EXCEPT ![t] =
                  [pc |-> "seek", op |-> "write_page", c |-> c, pid |-> p.page_id,
                   page |-> Some(p), ret |-> None]]
            /\ write_count' = [write_count EXCEPT ![c] = Wrap16(@ + 1)]
            /\ UNCHANGED status
    /\ UNCHANGED <<overflow_checks, srvVars, pageVars, heapfiles, written, memVars, last,
                   read_count, get_log, cursor>>

\* file.seek(SeekFrom::Start(page_id * PAGE_SIZE))
ThrSeek(t) ==
    /\ status = "ok"
    /\ threads[t].pc = "seek"
    /\ cursor' = [cursor EXCEPT ![threads[t].c] = threads[t].pid * PAGE_SIZE]
    /\ threads' = [threads EXCEPT ![t].pc = "io"]
    /\ UNCHANGED <<overflow_checks, srvVars, status, pageVars, heapfiles, written, memVars, last,
                   bpVars>>

\* file.read_exact(&mut buffer) from where the File is, its error dropped;
\* Ok(Page::from_bytes(&buffer))
ThrRead(t) ==
    /\ status = "ok"
    /\ threads[t].pc = "io"
    /\ threads[t].op = "get_page"
    /\ LET c == threads[t].c
           pos == cursor[c]
           n == IF Len(heapfiles[c]) - pos >= PAGE_SIZE THEN PAGE_SIZE
                ELSE IF Len(heapfiles[c]) > pos THEN Len(heapfiles[c]) - pos
                ELSE 0
       IN /\ threads' = [threads EXCEPT
                           ![t].pc = "done",
                           ![t].ret = Some(from_bytes(ReadAtPos(heapfiles[c], pos)))]
          /\ cursor' = [cursor EXCEPT ![c] = pos + n]
    /\ UNCHANGED <<overflow_checks, srvVars, status, pageVars, heapfiles, written, memVars, last,
                   bpVars>>

\* the BufWriter takes the PAGE_SIZE bytes of page.get_bytes() and flush()
\* writes them where the File is
ThrWrite(t) ==
    /\ status = "ok"
    /\ threads[t].pc = "io"
    /\ threads[t].op = "write_page"
    /\ LET c == threads[t].c
           pos == cursor[c]
           b == get_bytes(threads[t].page[1])
       IN IF b.panic
          THEN /\ status' = "panic"
               /\ UNCHANGED <<threads, cursor, heapfiles, written>>
          ELSE /\ heapfiles' = [heapfiles EXCEPT ![c] = WriteAtPos(@, pos, b.bytes)]
               /\ written' = [written EXCEPT ![c] = (threads[t].pid :> b.bytes) @@ @]
               /\ cursor' = [cursor EXCEPT ![c] = pos + PAGE_SIZE]
               /\ threads' = [threads EXCEPT ![t].pc = "done", ![t].ret = Some(Ok(<<>>))]
               /\ UNCHANGED status
    /\ UNCHANGED <<overflow_checks, srvVars, pageVars, memVars, last, bpVars>>

NextThreads ==
    \/ \E t \in Threads, c \in ContainerIds, pid \in PageIds : ThrGetPage(t, c, pid)
    \/ \E t \in Threads, c \in ContainerIds, p \in ThreadWrites : ThrWritePage(t, c, p)
    \/ \E t \in Threads : ThrSeek(t)
    \/ \E t \in Threads : ThrRead(t)
    \/ \E t \in Threads : ThrWrite(t)

SpecThreads == InitThreads /\ [][NextThreads]_vars

\* both threads have finished a get_page of the same page and no thread writes
TwoGetsDone(t, u) ==
    /\ t # u
    /\ threads[t].pc = "done" /\ threads[u].pc = "done"
    /\ threads[t].op = "get_page" /\ threads[u].op = "get_page"
    /\ threads[t].c = threads[u].c /\ threads[t].pid = threads[u].pid

\* C29: two threads calling get_page for the same page concurrently: the
\* page is read from the heap file once and both are served from the same
\* copy, the page of that id (at most one frame per key in every
\* interleaving).
C29_OneReadOneCopy ==
    \A t, u \in Threads :
        TwoGetsDone(t, u) =>
            /\ get_hf_read_write_count(threads[t].c)[1] = 1
            /\ threads[t].ret = threads[u].ret
            /\ threads[t].ret =
                 Some(read_page_from_file(heapfiles[threads[t].c], threads[t].pid))

\* C29 without the count of heap-file reads
C29_SameCopy ==
    \A t, u \in Threads :
        TwoGetsDone(t, u) =>
            /\ threads[t].ret = threads[u].ret
            /\ threads[t].ret =
                 Some(read_page_from_file(heapfiles[threads[t].c], threads[t].pid))

\* the complete versions of page pid of container c: the one in the file
\* before the threads started and the ones handed to write_page
VersionsOf(c, pid) ==
    {get_bytes(ThreadPage(pid, 170)).bytes} \cup
    {get_bytes(threads[u].page[1]).bytes :
        u \in {x \in Threads : /\ threads[x].op = "write_page"
                               /\ threads[x].c = c
                               /\ threads[x].pid = pid}}

\* C30: no torn pages: a get_page (read_page_from_file) of page p that runs
\* while other threads write page p returns one complete version of p.
C30_NoTornPage ==
    \A t \in Threads :
        (/\ threads[t].pc = "done"
         /\ threads[t].op = "get_page"
         /\ \A u \in Threads \ {t} :
                \/ threads[u].pc = "idle"
                \/ /\ threads[u].op = "write_page"
                   /\ threads[u].c = threads[t].c
                   /\ threads[u].pid = threads[t].pid)
            => /\ Len(threads[t].ret) = 1
               /\ ~get_bytes(threads[t].ret[1]).panic
               /\ get_bytes(threads[t].ret[1]).bytes
                    \in VersionsOf(threads[t].c, threads[t].pid)

\* C30 while the reading thread runs alone
C30_ReaderAlone ==
    (\E u \in Threads : threads[u].pc = "idle") => C30_NoTornPage

\* ------------------------------------------------------------------------
\* Further claims about Page

\* C32: in every Page state reachable by add_value and delete_value the byte
\* ranges [offset, offset + length) of any two distinct live slots are
\* disjoint and lie within the page.
C32_LiveRangesDisjoint ==
    status = "ok" =>
        /\ \A i \in 1..Len(page.slots) :
              page.slots[i].slot_offset + page.slots[i].size <= PAGE_SIZE
        /\ \A i, j \in 1..Len(page.slots) :
              i # j =>
                \/ page.slots[i].slot_offset + page.slots[i].size <= page.slots[j].slot_offset
                \/ page.slots[j].slot_offset + page.slots[j].size <= page.slots[i].slot_offset

\* C33: delete_value(s) changes nothing about any other live slot: every
\* live t # s stays live with the same slot id and get_value(t) returns the
\* same bytes before and after the delete, also for s = 0.
C33_DeleteLeavesOthers ==
    (status = "ok" /\ last.op = "delete_value") =>
        \A t \in SlotIdsOf(last.pre) \ {last.arg} :
            /\ t \in SlotIdsOf(page)
            /\ get_value(page, t) = get_value(last.pre, t)

\* C34: with n live slots the header and slot directory occupy
\* get_header_size() <= 8 + 6n bytes and never overlap the data region:
\* every live slot has offset >= get_header_size() and
\* offset + length <= PAGE_SIZE.
C34_HeaderBelowData ==
    status = "ok" =>
        /\ get_header_size(page) <= 8 + SIZE_OF_SLOT * Len(page.slots)
        /\ \A i \in 1..Len(page.slots) :
              /\ page.slots[i].slot_offset >= get_header_size(page)
              /\ page.slots[i].slot_offset + page.slots[i].size <= PAGE_SIZE

C35_Step ==
    (last'.op = "add_value" /\ adds' # adds) =>
        LET need == Len(last'.arg) + SIZE_OF_SLOT
            free == get_largest_free_contiguous_space(page)
        IN /\ status' = "ok"
           /\ Len(last'.ret) = 1 =>
                /\ free >= need
                /\ get_largest_free_contiguous_space(page') = free - need
           /\ Len(last'.ret) = 0 =>
                get_largest_free_contiguous_space(page') = free

\* C35: free-space accounting: every add_value that returns an id lowers
\* get_largest_free_contiguous_space() by the record length plus the 6 bytes
\* its slot adds to the header (so that on a page built by add_value alone
\* it equals PAGE_SIZE - get_header_size() - total record length), a
\* rejected add_value leaves it unchanged, and the counter never underflows.
C35_FreeSpaceAccounting == [][C35_Step]_vars

\* C35 for add_value calls whose record and slot fit into the free space
C35_WhenItFits ==
    [][(/\ last'.op = "add_value"
        /\ get_largest_free_contiguous_space(page) < Len(last'.arg) + SIZE_OF_SLOT)
         \/ C35_Step]_vars

\* C34 for the build with overflow checks
C34_WithOverflowChecks == overflow_checks => C34_HeaderBelowData

\* calls applied to a page and to its restored copy, one after the other
MaxLaterCalls == 2

\* p and q report the same header size and free space and answer the next
\* `calls` add_value, get_value and delete_value calls alike
RECURSIVE SameUnderCalls(_, _, _)
SameUnderCalls(p, q, calls) ==
    /\ get_header_size(p) = get_header_size(q)
    /\ get_largest_free_contiguous_space(p) = get_largest_free_contiguous_space(q)
    /\ calls > 0 =>
        /\ \A b \in Values :
              /\ add_value(p, b, overflow_checks).panic = add_value(q, b, overflow_checks).panic
              /\ add_value(p, b, overflow_checks).ret = add_value(q, b, overflow_checks).ret
              /\ ~add_value(p, b, overflow_checks).panic =>
                    SameUnderCalls(add_value(p, b, overflow_checks).page,
                                   add_value(q, b, overflow_checks).page, calls - 1)
        /\ \A slot_id \in SlotIds :
              /\ get_value(p, slot_id) = get_value(q, slot_id)
              /\ delete_value(p, slot_id).ret = delete_value(q, slot_id).ret
              /\ SameUnderCalls(delete_value(p, slot_id).page,
                                delete_value(q, slot_id).page, calls - 1)

\* C37: for every reachable Page P, P and Page::from_bytes(P.get_bytes())
\* report the same header size and largest free space and give the same
\* return values under the same later add_value, get_value and delete_value
\* calls.
C37_RestoredPageBehavesAlike ==
    (status = "ok" /\ last.op = "from_bytes" /\ Len(last.ret) = 1) =>
        SameUnderCalls(page, last.ret[1], MaxLaterCalls)

\* C37 for pages on which no record was deleted: their free space is what
\* from_bytes computes from the directory
C37_WithoutDeletes ==
    (/\ overflow_checks
     /\ get_largest_free_contiguous_space(page) =
          FreeAfter(page.slots, 1, PAGE_SIZE - get_size(page.slots)))
        => C37_RestoredPageBehavesAlike

\* ------------------------------------------------------------------------
\* HeapFileIterator over a heap file that is written to while the iteration
\* is in progress

\* Pages written while an iterator exists: empty, and with one record
AppendPages(checks) ==
    {p \in IterPages(checks) : Len(p.slots) = 0 \/ SlotIdsOf(p) = {0}}

NextHeapIterAppend ==
    \/ \E c \in ContainerIds : iter = None /\ CreateContainer(c)
    \/ \E c \in ContainerIds : \E p \in IterPages(overflow_checks) :
            iter = None /\ WritePage(c, p)
    \/ \E c \in ContainerIds : \E p \in AppendPages(overflow_checks) :
            iter # None /\ WritePage(c, p)
    \/ \E c \in ContainerIds : HeapIterNew(c)
    \/ HeapIterNext
    \/ HeapIterDrop

SpecHeapIterAppend == InitHeap /\ [][NextHeapIterAppend]_vars

\* C36: a HeapFileIterator works on the page count taken when it was
\* created: the pages it has read, 0..curr_pid, all have an id below that
\* count (so it yields no record of a later page), also when pages are
\* appended while the iteration is in progress.
C36_IteratesSnapshot ==
    (status = "ok" /\ iter # None) =>
        iter[1].curr_pid < iter[1].pages_at_new

\* C36 for the records only: no next() returns a record of a page whose id
\* is not below the page count at creation
C36_YieldsSnapshotOnly ==
    [][(last'.op = "heapfileiter_next" /\ last'.ret # None)
         => iter'[1].curr_pid < iter'[1].pages_at_new]_vars

\* every other thread is idle or works on another page id than thread t
OthersElsewhere(t) ==
    \A u \in Threads \ {t} :
        \/ threads[u].pc = "idle"
        \/ /\ threads[u].c = threads[t].c
           /\ threads[u].pid # threads[t].pid

\* C38: concurrent heap-file operations on different page ids do not
\* interfere, for every interleaving of their seek and read/write steps:
\* read_page_from_file(p) returns the content of page p, and
\* write_page_to_file(P) puts P on page P.page_id and changes no other page.
C38_DisjointPagesIndependent ==
    \A t \in Threads :
        (threads[t].pc = "done" /\ OthersElsewhere(t)) =>
            LET c == threads[t].c
                pid == threads[t].pid
            IN /\ threads[t].op = "get_page" =>
                    threads[t].ret = Some(read_page_from_file(ThreadFile, pid))
               /\ threads[t].op = "write_page" =>
                    /\ read_page_from_file(heapfiles[c], pid)
                         = from_bytes(get_bytes(threads[t].page[1]).bytes)
                    /\ Len(heapfiles[c]) = Len(ThreadFile)
                    /\ \A q \in PageIds :
                          (\A u \in Threads :
                              threads[u].op = "write_page" => threads[u].pid # q)
                            => read_page_from_file(heapfiles[c], q)
                                 = read_page_from_file(ThreadFile, q)

\* C38 while the other thread has not started
C38_AloneHolds ==
    (\E u \in Threads : threads[u].pc = "idle") => C38_DisjointPagesIndependent


\* ---------------------------------------------------------------------------
\* Further claims about the memstore storage manager
\* ---------------------------------------------------------------------------

C39_Step ==
    (last'.op = "mem_insert_value" /\ last'.ret # None) =>
        LET rid == last'.ret[1]
            c   == rid.container_id
        IN /\ rid \notin DOMAIN stored
           /\ c \in DOMAIN containers /\ rid \notin DOMAIN containers[c]
           /\ c \in DOMAIN last_insert =>
                    rid.slot_id[1] > last_insert[c].slot_id[1]

\* C39: insert_value never returns the ValueId of a value that is stored in
\* the container when it is called, and the slot id it returns is greater
\* than the one the storage manager returned (or loaded) last for that
\* container.
C39_InsertReturnsUnusedId == [][C39_Step]_vars

\* The same holds for every insert_value that does not follow the slot id
\* U16 - 1 of its container.
C39_BelowSlotLimit ==
    [][(/\ last'.op = "mem_insert_value"
        /\ last'.arg[1] \in DOMAIN last_insert
        /\ last_insert[last'.arg[1]].slot_id[1] = U16 - 1)
       \/ C39_Step]_vars


\* ---------------------------------------------------------------------------
\* std::sync::RwLock, as the calls below take it.  A thread record carries in
\* `want` the lock and mode ("R" or "W") its next step asks for.
\* ---------------------------------------------------------------------------

Unlocked == [readers |-> {}, writer |-> 0, poisoned |-> FALSE]

WriterWaits(l, t) == \E u \in Threads \ {t} : threads[u].want = <<l, "W">>

\* read() returns once no thread holds the write guard; which of a waiting
\* writer and a new reader goes first is left to the platform
CanRead(t, l) ==
    /\ locks[l].writer = 0
    /\ write_preferring => ~WriterWaits(l, t)

\* write() returns once no thread holds any guard
CanWrite(t, l) == locks[l].writer = 0 /\ locks[l].readers = {}

Granted(t) ==
    threads[t].want # None =>
        IF threads[t].want[2] = "R" THEN CanRead(t, threads[t].want[1])
                                    ELSE CanWrite(t, threads[t].want[1])

\* the lock a thread asks for is one it holds a guard of itself
SelfBlocked(t) ==
    /\ threads[t].want # None
    /\ \/ locks[threads[t].want[1]].writer = t
       \/ threads[t].want[2] = "W" /\ t \in locks[threads[t].want[1]].readers

Acquire(lk, t, want) ==
    IF want[2] = "R" THEN [lk EXCEPT ![want[1]].readers = @ \cup {t}]
                     ELSE [lk EXCEPT ![want[1]].writer = t]

\* every guard of t is dropped; a write guard dropped while its thread
\* panics poisons the lock
ReleaseAll(lk, t, panicking) ==
    [l \in DOMAIN lk |->
        [readers  |-> lk[l].readers \ {t},
         writer   |-> IF lk[l].writer = t THEN 0 ELSE lk[l].writer,
         poisoned |-> lk[l].poisoned \/ (panicking /\ lk[l].writer = t)]]

\* ---------------------------------------------------------------------------
\* ServerState and DatabaseState: the handler thread t serves the client
\* with id t.  No call of ServerState panics while it holds a write guard, so
\* none of its locks is ever poisoned.
\* ---------------------------------------------------------------------------

DbIds == {1, 2}

Handler(pc, op, db, want) == [pc |-> pc, op |-> op, db |-> db, want |-> want]

InitServer ==
    /\ overflow_checks = FALSE
    /\ status = "ok"
    /\ page = Page_new(0)
    /\ adds = 0
    /\ live = <<>>
    /\ last = [op |-> "new", arg |-> <<>>, ret |-> None, pre |-> None, prelive |-> None]
    /\ iter = None
    /\ iter_done = FALSE
    /\ yielded = <<>>
    /\ heapfiles = <<>>
    /\ written = <<>>
    /\ read_count = <<>>
    /\ write_count = <<>>
    /\ get_log = <<>>
    /\ cursor = <<>>
    /\ MemUnused
    /\ threads = [t \in Threads |-> Handler("idle", "", 0, None)]
    /\ locks = [l \in {"id_to_db", "active_connections"} |-> Unlocked]
    /\ write_preferring \in BOOLEAN
    /\ id_to_db = <<>>
    /\ active_connections = <<>>

srvRest == <<overflow_checks, status, pageVars, last, heapfiles, written, bpVars, cursor,
             memVars, write_preferring>>

\* Commands::Create(name): create_database is entered
SrvCreateDatabase(t, db) ==
    /\ threads[t].pc = "idle"
    /\ threads' = [threads EXCEPT ![t] =
            Handler("insert", "create_database", db, <<"id_to_db", "W">>)]
    /\ UNCHANGED <<srvRest, locks, id_to_db, active_connections>>

\* `self.id_to_db.write().unwrap().insert(db_state.id, db_state)` with the
\* DatabaseState that new_from_name built: no client is connected to it
CreateInsert(t) ==
    /\ threads[t].pc = "insert"
    /\ Granted(t)
    /\ id_to_db' = (threads[t].db :> {}) @@ id_to_db
    /\ threads' = [threads EXCEPT ![t] = Handler("idle", "", 0, None)]
    /\ UNCHANGED <<srvRest, locks, active_connections>>

\* Commands::Connect(name): connect_to_db is entered
SrvConnectToDb(t, db) ==
    /\ threads[t].pc = "idle"
    /\ threads' = [threads EXCEPT ![t] =
            Handler("lookup", "connect_to_db", db, <<"id_to_db", "R">>)]
    /\ UNCHANGED <<srvRest, locks, id_to_db, active_connections>>

\* get_db_id_from_db_name, which drops its read guard when it returns;
\* `?` returns its error
ConnectLookup(t) ==
    /\ threads[t].pc = "lookup"
    /\ Granted(t)
    /\ threads' = [threads EXCEPT ![t] =
            IF threads[t].db \in DOMAIN id_to_db
            THEN [@ EXCEPT !.pc = "map_ref"]
            ELSE Handler("idle", "", 0, None)]
    /\ UNCHANGED <<srvRest, locks, id_to_db, active_connections>>

\* `let map_ref = self.id_to_db.read().unwrap();`
ConnectMapRef(t) ==
    /\ threads[t].pc = "map_ref"
    /\ Granted(t)
    /\ locks' = Acquire(locks, t, threads[t].want)
    /\ threads' = [threads EXCEPT ![t].pc = "connect",
                                  ![t].want = <<"active_connections", "W">>]
    /\ UNCHANGED <<srvRest, id_to_db, active_connections>>

\* the block that takes active_connections.write(), inserts and drops the guard
ConnectInsert(t) ==
    /\ threads[t].pc = "connect"
    /\ Granted(t)
    /\ active_connections' = (t :> threads[t].db) @@ active_connections
    /\ threads' = [threads EXCEPT ![t].pc = "register", ![t].want = None]
    /\ UNCHANGED <<srvRest, locks, id_to_db>>

\* db_state.register_new_client_connection(client_id), whose write guard of
\* active_client_connections is dropped at once; map_ref is dropped on return
ConnectRegister(t) ==
    /\ threads[t].pc = "register"
    /\ id_to_db' = [id_to_db EXCEPT ![threads[t].db] = @ \cup {t}]
    /\ locks' = ReleaseAll(locks, t, FALSE)
    /\ threads' = [threads EXCEPT ![t] = Handler("idle", "", 0, None)]
    /\ UNCHANGED <<srvRest, active_connections>>

\* handle_client_request reads "\close" or the end of the stream:
\* close_client_connection is entered
SrvCloseClientConnection(t) ==
    /\ threads[t].pc = "idle"
    /\ threads' = [threads EXCEPT ![t] =
            Handler("read", "close_client_connection", 0, <<"active_connections", "R">>)]
    /\ UNCHANGED <<srvRest, locks, id_to_db, active_connections>>

\* `let db_id_ref = self.active_connections.read().unwrap();` and the choice
\* of the match arm; db_id_ref lives to the end of the function
CloseRead(t) ==
    /\ threads[t].pc = "read"
    /\ Granted(t)
    /\ locks' = Acquire(locks, t, threads[t].want)
    /\ threads' = [threads EXCEPT ![t] =
            IF t \in DOMAIN active_connections
            THEN [@ EXCEPT !.pc = "match", !.db = active_connections[t],
                           !.want = <<"id_to_db", "R">>]
            ELSE [@ EXCEPT !.pc = "remove", !.want = <<"active_connections", "W">>]]
    /\ UNCHANGED <<srvRest, id_to_db, active_connections>>

\* the Some(db_id) arm: id_to_db.read(), DatabaseState::close_client_connection
\* (its guards of active_client_connections are dropped at once; the json
\* file it writes for a database without clients is not modelled), db_ref
\* dropped at the end of the arm
CloseMatch(t) ==
    /\ threads[t].pc = "match"
    /\ Granted(t)
    /\ id_to_db' = [id_to_db EXCEPT ![threads[t].db] = @ \ {t}]
    /\ threads' = [threads EXCEPT ![t].pc = "remove",
                                  ![t].want = <<"active_connections", "W">>]
    /\ UNCHANGED <<srvRest, locks, active_connections>>

\* `self.active_connections.write().unwrap().remove(&client_id);` and the
\* return.  write() on a lock the thread holds a guard of either never
\* returns (no step) or panics; the unwinding drops db_id_ref.
CloseRemove(t) ==
    /\ threads[t].pc = "remove"
    /\ IF SelfBlocked(t)
       THEN /\ threads' = [threads EXCEPT ![t].pc = "panicked", ![t].want = None]
            /\ locks' = ReleaseAll(locks, t, TRUE)
            /\ UNCHANGED active_connections
       ELSE /\ Granted(t)
            /\ active_connections' = Without(active_connections, t)
            /\ threads' = [threads EXCEPT ![t].pc = "done", ![t].want = None]
            /\ locks' = ReleaseAll(locks, t, FALSE)
    /\ UNCHANGED <<srvRest, id_to_db>>

NextServer ==
    \/ \E t \in Threads, db \in DbIds : SrvCreateDatabase(t, db)
    \/ \E t \in Threads : CreateInsert(t)
    \/ \E t \in Threads, db \in DbIds : SrvConnectToDb(t, db)
    \/ \E t \in Threads : ConnectLookup(t)
    \/ \E t \in Threads : ConnectMapRef(t)
    \/ \E t \in Threads : ConnectInsert(t)
    \/ \E t \in Threads : ConnectRegister(t)
    \/ \E t \in Threads : SrvCloseClientConnection(t)
    \/ \E t \in Threads : CloseRead(t)
    \/ \E t \in Threads : CloseMatch(t)
    \/ \E t \in Threads : CloseRemove(t)

SpecServer == InitServer /\ [][NextServer]_vars

\* C40: close_client_connection(client_id) always returns, and when it has
\* returned client_id is neither in active_connections nor in the active
\* client set of the database it was connected to.
C40_CloseReturnsDisconnected ==
    \A t \in Threads : threads[t].op = "close_client_connection" =>
        /\ threads[t].pc # "panicked"
        /\ ~SelfBlocked(t)
        /\ threads[t].pc = "done" =>
                /\ t \notin DOMAIN active_connections
                /\ \A db \in DOMAIN id_to_db : t \notin id_to_db[db]

\* What close_client_connection does get done before it asks for the write
\* guard: the client has left the database it was connected to.
C40_LeavesDatabase ==
    \A t \in Threads :
        (/\ threads[t].op = "close_client_connection"
         /\ threads[t].pc \in {"remove", "panicked"}
         /\ t \in DOMAIN active_connections)
            => t \notin id_to_db[active_connections[t]]

\* close_client_connection never gets as far as its return.
C40_NeverReturns ==
    \A t \in Threads : threads[t].pc # "done"


\* ---------------------------------------------------------------------------
\* The locks of the two storage managers.  memstore: containers, last_insert
\* and the map of each container; heapstore: hash_map and the File of each
\* heap file.  Threads call the StorageTrait functions concurrently; a call
\* advances one lock request at a time.
\* ---------------------------------------------------------------------------

LockContainerIds == {1}

LockValues == {Fill(1, 170)}

LockIds == {MemValueId(c, 0) : c \in LockContainerIds}

L_containers == <<"containers", 0>>

L_last_insert == <<"last_insert", 0>>

L_vals(c) == <<"vals", c>>

L_hash_map == <<"hash_map", 0>>

L_file(c) == <<"file", c>>

MemLockNames == {L_containers, L_last_insert} \cup {L_vals(c) : c \in LockContainerIds}

HeapLockNames == {L_hash_map} \cup {L_file(c) : c \in LockContainerIds}

MaxLockInserts == 2

MaxLockShutdowns == 1

\* The states the memstore storage manager is started from: new, or with a
\* container that has handed out all slot ids.
LockSeeds == {Mem_new} \cup {Mem_after_inserts(1, U16, v) : v \in LockValues}

\* the two locks insert_value of memstore takes first, in the order of its
\* `let` statements, here the other way round
insert_value_locks_swapped == <<L_last_insert, L_containers>>

\* the two locks insert_value of memstore takes first, in the order of its
\* `let` statements
insert_value_locks == <<L_containers, L_last_insert>>

Caller(pc, op, arg, want, it) ==
    [pc |-> pc, op |-> op, arg |-> arg, want |-> want, it |-> it]

\* the thread between two calls; it keeps the ValueIterator it holds
Back(t, it) == Caller("idle", "", None, None, it)

InitLocks ==
    /\ overflow_checks \in BOOLEAN
    /\ status = "ok"
    /\ page = Page_new(0)
    /\ adds = 0
    /\ live = <<>>
    /\ last = [op |-> "new", arg |-> <<>>, ret |-> None, pre |-> None, prelive |-> None]
    /\ iter = None
    /\ iter_done = FALSE
    /\ yielded = <<>>
    /\ read_count = <<>>
    /\ write_count = <<>>
    /\ get_log = <<>>
    /\ cursor = <<>>
    /\ stored = <<>>
    /\ inserts = 0
    /\ disk = None
    /\ shutdowns = 0
    /\ at_shutdown = None
    /\ fresh = {}
    /\ threads = [t \in Threads |-> Back(t, None)]
    /\ \/ /\ locks = [l \in MemLockNames |-> Unlocked]
          /\ \E sm \in LockSeeds :
                /\ containers = sm.containers
                /\ last_insert = sm.last_insert
          /\ persist_path \in {"", "db"}
          /\ heapfiles = <<>>
          /\ written = <<>>
       \/ /\ locks = [l \in HeapLockNames |-> Unlocked]
          /\ heapfiles \in {<<>>, [c \in LockContainerIds |-> <<>>]}
          /\ written = [c \in DOMAIN heapfiles |-> <<>>]
          /\ containers = <<>>
          /\ last_insert = <<>>
          /\ persist_path = ""
    /\ write_preferring \in BOOLEAN
    /\ id_to_db = <<>>
    /\ active_connections = <<>>

lkRest == <<overflow_checks, status, pageVars, last, bpVars, cursor, stored, persist_path,
            at_shutdown, fresh, write_preferring, id_to_db, active_connections>>

\* read() and write() return Err on a poisoned lock, which every call unwraps
Poisoned(t) == threads[t].want # None /\ locks[threads[t].want[1]].poisoned

\* the thread unwinds: its guards are dropped while it panics
PanicWith(t, lk) ==
    /\ threads' = [threads EXCEPT ![t].pc = "panicked", ![t].want = None]
    /\ locks' = ReleaseAll(lk, t, TRUE)

Return(t, it) ==
    /\ threads' = [threads EXCEPT ![t] = Back(t, it)]
    /\ locks' = ReleaseAll(locks, t, FALSE)

\* the calls a thread can make, as <<function, argument>>; hs_insert_value
\* is insert_value of heapstore, the others are those of memstore
LockCalls(t) ==
    {<<"insert_value", <<c, v>>>> : c \in LockContainerIds, v \in LockValues}
    \cup {<<"hs_insert_value", <<c, v>>>> : c \in LockContainerIds, v \in HeapValues}
    \cup {<<"delete_value", id>> : id \in LockIds}
    \cup {<<"get_value", id>> : id \in LockIds}
    \cup {<<"create_container", c>> : c \in LockContainerIds}
    \cup {<<"remove_container", c>> : c \in LockContainerIds}
    \cup {<<"get_iterator", c>> : c \in LockContainerIds}
    \cup {<<"next", <<>>>>, <<"shutdown", <<>>>>}

\* the first lock request of each function
FirstWant(t, op) ==
    CASE op = "insert_value"     -> <<insert_value_locks[1], "W">>
      [] op = "hs_insert_value"  -> <<L_hash_map, "R">>
      [] op = "delete_value"     -> <<L_containers, "W">>
      [] op = "get_value"        -> <<L_containers, "R">>
      [] op = "create_container" -> <<L_containers, "W">>
      [] op = "remove_container" -> <<L_containers, "W">>
      [] op = "get_iterator"     -> <<L_containers, "R">>
      [] op = "next"             -> <<L_vals(threads[t].it[1].tracker.container_id), "R">>
      [] op = "shutdown"         -> <<L_containers, "R">>

\* a thread enters a function; shutdown of a storage manager without a path
\* returns before it takes a lock.  One ValueIterator is in use at a time.
LkCall(t, call) ==
    /\ threads[t].pc = "idle"
    /\ (call[1] = "hs_insert_value") = (L_hash_map \in DOMAIN locks)
    /\ call[1] \in {"insert_value", "hs_insert_value"} => inserts < MaxLockInserts
    /\ call[1] = "get_iterator" => \A u \in Threads : threads[u].it = None
    /\ call[1] = "next" => threads[t].it # None
    /\ call[1] = "shutdown" => shutdowns < MaxLockShutdowns
    /\ inserts' = IF call[1] \in {"insert_value", "hs_insert_value"}
                  THEN inserts + 1 ELSE inserts
    /\ shutdowns' = IF call[1] = "shutdown" THEN shutdowns + 1 ELSE shutdowns
    /\ threads' = [threads EXCEPT ![t] =
            IF call[1] = "shutdown" /\ persist_path = ""
            THEN @
            ELSE Caller("first", call[1], call[2], FirstWant(t, call[1]), threads[t].it)]
    /\ UNCHANGED <<lkRest, locks, containers, last_insert, disk, heapfiles, written>>

\* memstore insert_value: `self.containers.write().unwrap()`
InsertFirst(t) ==
    /\ threads[t].pc = "first" /\ threads[t].op = "insert_value"
    /\ Granted(t)
    /\ IF Poisoned(t)
       THEN PanicWith(t, locks)
       ELSE /\ locks' = Acquire(locks, t, threads[t].want)
            /\ threads' = [threads EXCEPT ![t].pc = "second",
                                          ![t].want = <<insert_value_locks[2], "W">>]
    /\ UNCHANGED <<lkRest, containers, last_insert, inserts, disk, shutdowns, heapfiles, written>>

\* `self.last_insert.write().unwrap()`; the map of a container that is
\* missing is not asked for: expect() panics
InsertSecond(t) ==
    /\ threads[t].pc = "second" /\ threads[t].op = "insert_value"
    /\ Granted(t)
    /\ IF Poisoned(t)
       THEN PanicWith(t, locks)
       ELSE /\ locks' = Acquire(locks, t, threads[t].want)
            /\ threads' = [threads EXCEPT ![t].pc = "vals",
                    ![t].want = IF threads[t].arg[1] \in DOMAIN containers
                                THEN <<L_vals(threads[t].arg[1]), "W">> ELSE None]
    /\ UNCHANGED <<lkRest, containers, last_insert, inserts, disk, shutdowns, heapfiles, written>>

\* `.get_mut(..).expect(..).write().unwrap()` and the rest of insert_value
InsertVals(t) ==
    /\ threads[t].pc = "vals" /\ threads[t].op = "insert_value"
    /\ Granted(t)
    /\ LET r == Mem_insert_value(TheSM, threads[t].arg[1], threads[t].arg[2],
                                 overflow_checks)
       IN IF threads[t].want = None \/ Poisoned(t)
          THEN PanicWith(t, locks) /\ UNCHANGED <<containers, last_insert>>
          ELSE IF r.panic
          THEN /\ PanicWith(t, Acquire(locks, t, threads[t].want))
               /\ UNCHANGED <<containers, last_insert>>
          ELSE /\ containers' = r.sm.containers
               /\ last_insert' = r.sm.last_insert
               /\ Return(t, threads[t].it)
    /\ UNCHANGED <<lkRest, inserts, disk, shutdowns, heapfiles, written>>

\* delete_value: `self.containers.write().unwrap()` and contains_key
DeleteFirst(t) ==
    /\ threads[t].pc = "first" /\ threads[t].op = "delete_value"
    /\ Granted(t)
    /\ IF Poisoned(t)
       THEN PanicWith(t, locks)
       ELSE IF threads[t].arg.container_id \in DOMAIN containers
       THEN /\ locks' = Acquire(locks, t, threads[t].want)
            /\ threads' = [threads EXCEPT ![t].pc = "vals",
                    ![t].want = <<L_vals(threads[t].arg.container_id), "W">>]
       ELSE Return(t, threads[t].it)
    /\ UNCHANGED <<lkRest, containers, last_insert, inserts, disk, shutdowns, heapfiles, written>>

\* `containers.get(..).unwrap().write().unwrap()` and the removal
DeleteVals(t) ==
    /\ threads[t].pc = "vals" /\ threads[t].op = "delete_value"
    /\ Granted(t)
    /\ IF Poisoned(t)
       THEN PanicWith(t, locks) /\ UNCHANGED containers
       ELSE /\ containers' = Mem_delete_value(TheSM, threads[t].arg).sm.containers
            /\ Return(t, threads[t].it)
    /\ UNCHANGED <<lkRest, last_insert, inserts, disk, shutdowns, heapfiles, written>>

\* get_value: `self.containers.read().unwrap()` and contains_key
GetFirst(t) ==
    /\ threads[t].pc = "first" /\ threads[t].op = "get_value"
    /\ Granted(t)
    /\ IF Poisoned(t)
       THEN PanicWith(t, locks)
       ELSE IF threads[t].arg.container_id \in DOMAIN containers
       THEN /\ locks' = Acquire(locks, t, threads[t].want)
            /\ threads' = [threads EXCEPT ![t].pc = "vals",
                    ![t].want = <<L_vals(threads[t].arg.container_id), "R">>]
       ELSE Return(t, threads[t].it)
    /\ UNCHANGED <<lkRest, containers, last_insert, inserts, disk, shutdowns, heapfiles, written>>

\* `containers.get(..).unwrap().read().unwrap()` and the lookup
GetVals(t) ==
    /\ threads[t].pc = "vals" /\ threads[t].op = "get_value"
    /\ Granted(t)
    /\ IF Poisoned(t) THEN PanicWith(t, locks) ELSE Return(t, threads[t].it)
    /\ UNCHANGED <<lkRest, containers, last_insert, inserts, disk, shutdowns, heapfiles, written>>

\* create_container and remove_container: containers.write() and the change
CreateOrRemove(t) ==
    /\ threads[t].pc = "first"
    /\ threads[t].op \in {"create_container", "remove_container"}
    /\ Granted(t)
    /\ IF Poisoned(t)
       THEN PanicWith(t, locks) /\ UNCHANGED containers
       ELSE /\ containers' =
                    IF threads[t].op = "create_container"
                    THEN Mem_create_container(TheSM, threads[t].arg).containers
                    ELSE Mem_remove_container(TheSM, threads[t].arg).containers
            /\ Return(t, threads[t].it)
    /\ UNCHANGED <<lkRest, last_insert, inserts, disk, shutdowns, heapfiles, written>>

\* get_iterator: the statement that reads containers, unwraps the lookup and
\* clones the map; its read guard is a temporary of that statement
IterFirst(t) ==
    /\ threads[t].pc = "first" /\ threads[t].op = "get_iterator"
    /\ Granted(t)
    /\ IF Poisoned(t) \/ threads[t].arg \notin DOMAIN containers
       THEN PanicWith(t, locks)
       ELSE /\ threads' = [threads EXCEPT ![t].pc = "second",
                                          ![t].want = <<L_last_insert, "R">>]
            /\ UNCHANGED locks
    /\ UNCHANGED <<lkRest, containers, last_insert, inserts, disk, shutdowns, heapfiles, written>>

\* `self.last_insert.read().unwrap()`, the unwrapped lookup and
\* ValueIterator::new.  The cloned map is shared with the container: next
\* reads it as the container of that id is at that time.
IterSecond(t) ==
    /\ threads[t].pc = "second" /\ threads[t].op = "get_iterator"
    /\ Granted(t)
    /\ LET c == threads[t].arg
           sm == [containers  |-> IF c \in DOMAIN containers THEN containers
                                  ELSE (c :> <<>>) @@ containers,
                  last_insert |-> last_insert]
           r == Mem_get_iterator(sm, c)
       IN IF Poisoned(t) \/ r.panic
          THEN PanicWith(t, locks)
          ELSE Return(t, Some([r.it[1] EXCEPT !.table_map = <<>>]))
    /\ UNCHANGED <<lkRest, containers, last_insert, inserts, disk, shutdowns, heapfiles, written>>

\* ValueIterator::next: every round of its loop takes the read guard of the
\* map and drops it; a loop that does not end holds no guard between rounds
IterNextLocked(t) ==
    /\ threads[t].pc = "first" /\ threads[t].op = "next"
    /\ Granted(t)
    /\ LET it0 == threads[t].it[1]
           c == it0.tracker.container_id
           it1 == IF c \in DOMAIN containers
                  THEN [it0 EXCEPT !.table_map = containers[c]] ELSE it0
           r == ValueIterator_next(it1, overflow_checks)
       IN IF Poisoned(t) \/ r.panic
          THEN PanicWith(t, locks)
          ELSE IF r.hang
          THEN /\ threads' = [threads EXCEPT ![t].pc = "hang", ![t].want = None]
               /\ UNCHANGED locks
          ELSE Return(t, IF r.ret = None THEN None
                         ELSE Some([r.it EXCEPT !.table_map = <<>>]))
    /\ UNCHANGED <<lkRest, containers, last_insert, inserts, disk, shutdowns, heapfiles, written>>

\* shutdown: create_dir_all, `self.containers.read().unwrap()`
ShutdownFirst(t) ==
    /\ threads[t].pc = "first" /\ threads[t].op = "shutdown"
    /\ Granted(t)
    /\ IF Poisoned(t)
       THEN PanicWith(t, locks) /\ UNCHANGED disk
       ELSE /\ disk' = IF disk = None THEN Some(<<>>) ELSE disk
            /\ IF containers = <<>>
               THEN Return(t, threads[t].it)
               ELSE /\ locks' = Acquire(locks, t, threads[t].want)
                    /\ threads' = [threads EXCEPT ![t].pc = "persist",
                            ![t].arg = DOMAIN containers,
                            ![t].want = <<L_vals(MinOf(DOMAIN containers)), "R">>]
    /\ UNCHANGED <<lkRest, containers, last_insert, inserts, shutdowns, heapfiles, written>>

\* one round of the loop of shutdown: `vals_lock.read().unwrap()` and the
\* file of that container
ShutdownPersist(t) ==
    /\ threads[t].pc = "persist"
    /\ Granted(t)
    /\ LET c == MinOf(threads[t].arg)
           left == threads[t].arg \ {c}
       IN IF Poisoned(t)
          THEN PanicWith(t, locks) /\ UNCHANGED disk
          ELSE /\ disk' = Some(PersistAll(TheSM, disk[1], {c}))
               /\ IF left = {}
                  THEN Return(t, threads[t].it)
                  ELSE /\ threads' = [threads EXCEPT ![t].arg = left,
                                          ![t].want = <<L_vals(MinOf(left)), "R">>]
                       /\ UNCHANGED locks
    /\ UNCHANGED <<lkRest, containers, last_insert, inserts, shutdowns, heapfiles, written>>

\* heapstore insert_value: `&*self.hash_map.read().unwrap()`, kept to the end
\* of the function, and the unwrapped lookup
HsFirst(t) ==
    /\ threads[t].pc = "first" /\ threads[t].op = "hs_insert_value"
    /\ Granted(t)
    /\ IF Poisoned(t) \/ threads[t].arg[1] \notin DOMAIN heapfiles
       THEN PanicWith(t, locks)
       ELSE /\ locks' = Acquire(locks, t, threads[t].want)
            /\ threads' = [threads EXCEPT ![t].pc = "file",
                                          ![t].want = <<L_file(threads[t].arg[1]), "R">>]
    /\ UNCHANGED <<lkRest, containers, last_insert, inserts, disk, shutdowns, heapfiles, written>>

\* num_pages, read_page_from_file and write_page_to_file: each takes
\* `self.file.read()` for its own length
HsFile(t) ==
    /\ threads[t].pc = "file"
    /\ Granted(t)
    /\ LET c == threads[t].arg[1]
           r == insert_value(heapfiles[c], c, threads[t].arg[2], overflow_checks)
       IN IF Poisoned(t) \/ r.panic
          THEN PanicWith(t, locks) /\ UNCHANGED <<heapfiles, written>>
          ELSE /\ heapfiles' = [heapfiles EXCEPT ![c] = r.file]
               /\ written' = IF Len(r.wrote) = 0 THEN written
                             ELSE [written EXCEPT ![c] =
                                    (r.wrote[1].page_id :> get_bytes(r.wrote[1]).bytes) @@ @]
               /\ Return(t, threads[t].it)
    /\ UNCHANGED <<lkRest, containers, last_insert, inserts, disk, shutdowns>>

NextLocks ==
    \/ \E t \in Threads : \E call \in LockCalls(t) : LkCall(t, call)
    \/ \E t \in Threads : InsertFirst(t)
    \/ \E t \in Threads : InsertSecond(t)
    \/ \E t \in Threads : InsertVals(t)
    \/ \E t \in Threads : DeleteFirst(t)
    \/ \E t \in Threads : DeleteVals(t)
    \/ \E t \in Threads : GetFirst(t)
    \/ \E t \in Threads : GetVals(t)
    \/ \E t \in Threads : CreateOrRemove(t)
    \/ \E t \in Threads : IterFirst(t)
    \/ \E t \in Threads : IterSecond(t)
    \/ \E t \in Threads : IterNextLocked(t)
    \/ \E t \in Threads : ShutdownFirst(t)
    \/ \E t \in Threads : ShutdownPersist(t)
    \/ \E t \in Threads : HsFirst(t)
    \/ \E t \in Threads : HsFile(t)

SpecLocks == InitLocks /\ [][NextLocks]_vars

\* registry, then last_insert or the heap file, then the map of a container
LockRank(l) ==
    CASE l[1] \in {"containers", "hash_map"} -> 0
      [] l[1] \in {"last_insert", "file"} -> 1
      [] l[1] = "vals" -> 2

Holds(t) == {l \in DOMAIN locks : locks[l].writer = t \/ t \in locks[l].readers}

InCall(t) == threads[t].pc \notin {"idle", "panicked", "hang"}

\* C31: every call asks for its locks in one fixed order, never for one that
\* comes before a lock it holds, and whenever threads are inside calls one of
\* them can take its next step: no set of concurrent calls deadlocks.
C31_OrderedNoDeadlock ==
    /\ \A t \in Threads : threads[t].want # None =>
            \A l \in Holds(t) : LockRank(l) < LockRank(threads[t].want[1])
    /\ (\E t \in Threads : InCall(t)) =>
            \E u \in Threads : InCall(u) /\ Granted(u)

\* one thread holds containers and last_insert for writing inside
\* insert_value while the other waits for a lock it is refused
C31_Witness ==
    \E t, u \in Threads :
        /\ threads[t].op = "insert_value" /\ threads[t].pc = "vals"
        /\ Holds(t) = {L_containers, L_last_insert}
        /\ InCall(u) /\ threads[u].want # None /\ ~Granted(u)

====
